---- MODULE Spec2Model ----
(***************************************************************************)
(* Model of the Cannae Hedge Blotter (src/app.py, src/utils/*.py).         *)
(*                                                                         *)
(* Seven state machines share the module:                                  *)
(*   SpecRecon  perform_recon applied to arbitrary pairs of DataFrames     *)
(*   SpecNorm   load_mars_data / load_exotics_data applied to arbitrary    *)
(*              uploaded tables                                            *)
(*   SpecStore  the saves, loads and backups of utils/data_storage.py on   *)
(*              the two CSV files                                          *)
(*   Spec       a browser session: the live collections held in            *)
(*              st.session_state and the page sections that act on them    *)
(*   SpecFault  the same session on a data directory where one of the two  *)
(*              files cannot be written                                    *)
(*   SpecTwo    two sessions on the same data directory, each save two     *)
(*              separate file writes                                       *)
(*   SpecMarket the market-data functions and the event loop of            *)
(*              get_bloomberg_history (SpecMarketLive: with the fairness   *)
(*              of the loop's steps)                                       *)
(*                                                                         *)
(* DataFrames are records [columns, rows]: columns is the set of column    *)
(* names, rows a sequence of records (one field per column).  Cells keep   *)
(* the Python type they carry, because str(1), str(1.0) and "1" are what   *)
(* perform_recon compares.                                                 *)
(***************************************************************************)
EXTENDS Integers, Sequences, FiniteSets, TLC

VARIABLES
    astype_str_na,          \* the pandas build: what Series.astype(str) makes of a
                            \* missing cell ("text": pandas 1.x/2.x, "missing": pandas 3)
    mars_df, exotics_df,    \* the two arguments of perform_recon (after the call)
    recon_results,          \* perform_recon(mars_df, exotics_df)
    recon_swapped,          \* perform_recon(exotics_df, mars_df)
    recon_again,            \* a second perform_recon(mars_df, exotics_df)
    manual_vanilla_trades,  \* st.session_state.manual_vanilla_trades
    manual_trades,          \* st.session_state.manual_trades (exotics)
    trade_history,          \* st.session_state.trade_history
    live_file,              \* data/live_trades.csv
    history_file,           \* data/trade_history.csv
    pc,                     \* "idle": the page is rendered; "rerun": st.rerun() is pending
    upload, schema,         \* the table handed to a normalizer, and which one
    standardized,           \* what the normalizer returned
    st_error,               \* the normalizer surfaced st.error(...)
    raised,                 \* the normalizer's call ended in an exception
    live_loaded,            \* what load_live_trades() gave on the live file as it is
    history_loaded,         \* what load_trade_history() gave on the history file as it is
    backup,                 \* what backup_data() gave on the two files as they are
    unwind_vanilla_trade,   \* the positions i with st.session_state[f"unwind_vanilla_trade_{i}"] set
    unwind_exotic_trade,    \* the positions i with st.session_state[f"unwind_exotic_trade_{i}"] set
    edit_vanilla_trade,     \* the positions i with st.session_state[f"edit_vanilla_trade_{i}"] set
    edit_exotic_trade,      \* the positions i with st.session_state[f"edit_exotic_trade_{i}"] set
    data_loaded,            \* 'data_loaded' in st.session_state
    disk,                   \* what happens to the writes of this session: "ok", or which
                            \* of the two files cannot be written
    save_outcome,           \* how the last auto_save_data() ended ("none": no call yet)
    sessions,               \* two sessions on the same data directory: for each, its
                            \* st.session_state collections and where its handler is
    writers,                \* which session wrote each of the two files last (0: none)
    BLOOMBERG_AVAILABLE,    \* the module global set when the client module is imported
    fetched,                \* the last call of get_hist_data / get_current_price: what
                            \* the vendor library did and how the call ended
    history_request         \* the call of get_bloomberg_history in progress: where it
                            \* is, its list "data", the event it holds, what it returned

vars == <<astype_str_na, mars_df, exotics_df, recon_results, recon_swapped,
          recon_again, manual_vanilla_trades, manual_trades, trade_history,
          live_file, history_file, pc, upload, schema, standardized, st_error,
          raised, live_loaded, history_loaded, backup, unwind_vanilla_trade,
          unwind_exotic_trade, edit_vanilla_trade, edit_exotic_trade, data_loaded, disk,
          save_outcome, sessions, writers, BLOOMBERG_AVAILABLE, fetched,
          history_request>>

reconVars == <<mars_df, exotics_df, recon_results, recon_swapped, recon_again>>
sessionVars == <<manual_vanilla_trades, manual_trades, trade_history>>
fileVars == <<live_file, history_file>>
normVars == <<upload, schema, standardized, st_error, raised>>
storeVars == <<live_loaded, history_loaded, backup>>
saveVars == <<disk, save_outcome>>
twoVars == <<sessions, writers>>
marketVars == <<BLOOMBERG_AVAILABLE, fetched, history_request>>
formVars == <<unwind_vanilla_trade, unwind_exotic_trade, edit_vanilla_trade,
              edit_exotic_trade>>

(***************************************************************************)
(* Bounds of the model.                                                    *)
(***************************************************************************)
\* total number of rows of the two DataFrames handed to perform_recon
MaxReconRows == 4
\* length of each live collection of a session
MaxTrades == 2
\* length of the history collection of a session
MaxHistory == 2
\* live records (vanilla and exotic together) handed to one save_live_trades
MaxStored == 2
\* rows of an uploaded table
MaxUploadRows == 2
\* headers of an uploaded table
MaxHeaders == 2
\* pending-form flags set at the same time in a session
MaxOpenForms == 1
\* live records (vanilla and exotic together) of each of two concurrent sessions
MaxSharedTrades == 2
\* history records of each of two concurrent sessions
MaxSharedHistory == 1
\* rows of a table of the market-data vendor, and prices read by one history request
MaxPrices == 2
\* messages of one event of the market-data session
MaxMessages == 1

(***************************************************************************)
(* Cells.  k is the Python type of the cell: "str" (s is the text), "int"  *)
(* and "float" (n is the whole-number value), "date" (s is the ISO text of *)
(* the calendar date), "nan" (the missing marker, numpy.nan / NaT), "none"  *)
(* (Python's None).                                                        *)
(***************************************************************************)
NaN == [k |-> "nan", s |-> "", n |-> 0]
NoneVal == [k |-> "none", s |-> "", n |-> 0]
DateVal(s) == [k |-> "date", s |-> s, n |-> 0]
StrVal(s) == [k |-> "str", s |-> s, n |-> 0]
IntVal(n) == [k |-> "int", s |-> "", n |-> n]
FloatVal(n) == [k |-> "float", s |-> "", n |-> n]

\* pd.notna on one cell
notna(v) == v.k \notin {"nan", "none"}

Digit == <<"0", "1", "2", "3", "4", "5", "6", "7", "8", "9">>

\* Python str() of a non-negative int
RECURSIVE NatStr(_)
NatStr(n) == IF n < 10 THEN Digit[n + 1] ELSE NatStr(n \div 10) \o Digit[(n % 10) + 1]

\* Python str() of an int
IntStr(n) == IF n < 0 THEN "-" \o NatStr(-n) ELSE NatStr(n)

\* Python str() of a non-missing cell
PyStr(v) ==
    CASE v.k = "str" -> v.s
      [] v.k = "int" -> IntStr(v.n)
      [] v.k = "float" -> IntStr(v.n) \o ".0"
      [] v.k = "date" -> v.s

\* Series.astype(str) on one cell.  A missing cell becomes the text "nan"
\* (pandas 1.x / 2.x) or stays missing (pandas 3 string dtype); the source
\* pins no pandas version, so the build decides.
astype_str(v) ==
    IF notna(v) THEN StrVal(PyStr(v))
    ELSE IF astype_str_na = "text"
         THEN StrVal(IF v.k = "none" THEN "None" ELSE "nan")
         ELSE NaN

\* Series.isin(ids) on one cell of an astype(str) column
isin(v, ids) == v.k = "str" /\ v.s \in ids

(***************************************************************************)
(* DataFrames.                                                             *)
(***************************************************************************)
\* pd.DataFrame()
EmptyFrame == [columns |-> {}, rows |-> <<>>]

\* DataFrame.empty
empty(df) == df.columns = {} \/ df.rows = <<>>

\* pd.DataFrame(list_of_dicts): one row per dict, the union of the dicts' keys
\* as columns, NaN where a dict has no such key
DataFrame(records) ==
    IF records = <<>> THEN EmptyFrame
    ELSE LET cols == UNION {DOMAIN records[i] : i \in DOMAIN records}
         IN [columns |-> cols,
             rows |-> [i \in DOMAIN records |->
                         [c \in cols |-> IF c \in DOMAIN records[i] THEN records[i][c] ELSE NaN]]]

\* row[column]; a frame without the column has no such cell (the access is
\* then a KeyError, accounted for by fault in perform_recon)
Cell(r, c) == IF c \in DOMAIN r THEN r[c] ELSE NaN

\* set(df['trade_id'].dropna().astype(str))
IdSet(df) ==
    {astype_str(Cell(df.rows[i], "trade_id")).s :
        i \in {j \in DOMAIN df.rows : notna(Cell(df.rows[j], "trade_id"))}}

\* df[df['trade_id'].astype(str).isin(ids)]
RowsInNoCast(df, ids) ==
    SelectSeq(df.rows, LAMBDA r : isin(Cell(r, "trade_id"), ids))
RowsIn(df, ids) ==
    SelectSeq(df.rows, LAMBDA r : isin(astype_str(Cell(r, "trade_id")), ids))

(***************************************************************************)
(* perform_recon (src/app.py:430-465).  The value is the returned dict     *)
(* plus fault = TRUE when the call raises (a KeyError: trade_id read on a  *)
(* frame that has no such column).                                         *)
(***************************************************************************)
NoResult == [matched |-> <<>>, only_mars |-> <<>>, only_manual |-> <<>>,
             fault |-> FALSE, called |-> FALSE]

\* lines 443 and 447: the guard in front of each id set
HasIdsNoColumnCheck(df) == ~empty(df)
HasIds(df) == ~empty(df) /\ "trade_id" \in df.columns

\* lines 450-452
MatchedIds(mars_ids, exotic_ids) == mars_ids \cap exotic_ids
OnlyMarsIdsNoDifference(mars_ids, exotic_ids) == mars_ids
OnlyMarsIds(mars_ids, exotic_ids) == mars_ids \ exotic_ids
OnlyExoticIdsNoDifference(mars_ids, exotic_ids) == exotic_ids
OnlyExoticIds(mars_ids, exotic_ids) == exotic_ids \ mars_ids

\* lines 454-457
MatchedRows(m, e, matched_ids) ==
    IF matched_ids # {} /\ "trade_id" \in m.columns /\ "trade_id" \in e.columns
    THEN RowsIn(m, matched_ids) \o RowsIn(e, matched_ids)
    ELSE <<>>

\* lines 459-463 (one side)
OnlyRows(df, only_ids) ==
    IF only_ids # {} /\ "trade_id" \in df.columns THEN RowsIn(df, only_ids) ELSE <<>>

perform_recon(m, e) ==
    IF empty(m) /\ empty(e)
    THEN [NoResult EXCEPT !.called = TRUE]
    ELSE
      LET keyError == \/ HasIds(m) /\ "trade_id" \notin m.columns
                      \/ HasIds(e) /\ "trade_id" \notin e.columns
          mars_ids == IF HasIds(m) THEN IdSet(m) ELSE {}
          exotic_ids == IF HasIds(e) THEN IdSet(e) ELSE {}
          matched_ids == MatchedIds(mars_ids, exotic_ids)
          only_mars_ids == OnlyMarsIds(mars_ids, exotic_ids)
          only_exotic_ids == OnlyExoticIds(mars_ids, exotic_ids)
      IN IF keyError
         THEN [NoResult EXCEPT !.called = TRUE, !.fault = TRUE]
         ELSE [matched |-> MatchedRows(m, e, matched_ids),
               only_mars |-> OnlyRows(m, only_mars_ids),
               only_manual |-> OnlyRows(e, only_exotic_ids),
               fault |-> FALSE,
               called |-> TRUE]

\* the two arguments as the call leaves them: perform_recon only reads them
\* (boolean indexing and pd.concat build new frames)
ArgsAfterReconDropMatched(m, e) ==
    <<[m EXCEPT !.rows = SelectSeq(m.rows, LAMBDA r :
                            ~isin(astype_str(Cell(r, "trade_id")), IdSet(m) \cap IdSet(e)))],
      e>>
ArgsAfterRecon(m, e) == <<m, e>>

(***************************************************************************)
(* SpecRecon: perform_recon on every pair of frames within the bounds.     *)
(***************************************************************************)
\* trade_id cells: text ids, the int 1 (an id read back from a CSV column of
\* numbers), the text "nan", and the missing marker
IdValues == {StrVal("T1"), StrVal("1"), IntVal(1), StrVal("nan"), NaN}

\* frames of exactly n rows whose non-key column source holds src: with a
\* trade_id column, and without one
FramesOf(n, src) ==
    {[columns |-> {"trade_id", "source"}, rows |-> rs] :
        rs \in [1..n -> [trade_id : IdValues, source : {StrVal(src)}]]}
    \cup {[columns |-> {"source"}, rows |-> [i \in 1..n |-> [source |-> StrVal(src)]]]}
    \cup (IF n = 0 THEN {EmptyFrame} ELSE {})

AstypeBuilds == {"text", "missing"}

NoFile == [exists |-> FALSE, columns |-> {}, rows |-> <<>>]

\* no call of load_live_trades / load_trade_history / backup_data yet
NotLoaded == [called |-> FALSE, vanilla |-> <<>>, exotic |-> <<>>,
              caught |-> FALSE, raised |-> FALSE]
HistoryNotLoaded == [called |-> FALSE, history |-> <<>>, caught |-> FALSE, raised |-> FALSE]
NoBackup == [called |-> FALSE, ok |-> FALSE, live |-> NoFile, history |-> NoFile]

\* the two sessions of SpecTwo, before either has run
SessionNames == {1, 2}
NewSession == [vanilla |-> <<>>, exotic |-> <<>>, history |-> <<>>,
               loaded |-> FALSE, pc |-> "idle"]
NoSessions ==
    /\ sessions = [s \in SessionNames |-> NewSession]
    /\ writers = [live |-> 0, history |-> 0]

\* no market-data call made yet; blpapi is not installed
NoFetch == [fn |-> "none"]
NoEvent == [eventType |-> "none", messages |-> <<>>]
NoReturn == [raised |-> FALSE, value |-> "pending"]
NoRequest == [pc |-> "idle", securities |-> <<>>, outstanding |-> FALSE, data |-> <<>>,
              event |-> NoEvent, result |-> NoReturn]
MarketIdle ==
    /\ BLOOMBERG_AVAILABLE = FALSE
    /\ fetched = NoFetch
    /\ history_request = NoRequest

StoreIdle ==
    /\ live_loaded = NotLoaded
    /\ history_loaded = HistoryNotLoaded
    /\ backup = NoBackup

SessionIdle ==
    /\ manual_vanilla_trades = <<>>
    /\ manual_trades = <<>>
    /\ trade_history = <<>>
    /\ live_file = NoFile
    /\ history_file = NoFile
    /\ pc = "idle"
    /\ StoreIdle
    /\ unwind_vanilla_trade = {}
    /\ unwind_exotic_trade = {}
    /\ edit_vanilla_trade = {}
    /\ edit_exotic_trade = {}
    /\ data_loaded = FALSE
    /\ disk = "ok"
    /\ save_outcome = "none"
    /\ NoSessions
    /\ MarketIdle

NormIdle ==
    /\ upload = [readable |-> TRUE, headers |-> <<>>, rows |-> <<>>]
    /\ schema = "none"
    /\ standardized = EmptyFrame
    /\ st_error = FALSE
    /\ raised = FALSE

InitRecon ==
    /\ astype_str_na \in AstypeBuilds
    /\ \E a \in 0..MaxReconRows : \E b \in 0..(MaxReconRows - a) :
          /\ mars_df \in FramesOf(a, "MARS")
          /\ exotics_df \in FramesOf(b, "Manual")
    /\ recon_results = NoResult
    /\ recon_swapped = NoResult
    /\ recon_again = NoResult
    /\ SessionIdle
    /\ NormIdle

\* recon_results = perform_recon(mars_df, exotics_df)
Recon ==
    /\ ~recon_results.called
    /\ recon_results' = perform_recon(mars_df, exotics_df)
    /\ mars_df' = ArgsAfterRecon(mars_df, exotics_df)[1]
    /\ exotics_df' = ArgsAfterRecon(mars_df, exotics_df)[2]
    /\ UNCHANGED <<astype_str_na, recon_swapped, recon_again, sessionVars, fileVars, pc, normVars, storeVars, formVars, data_loaded, saveVars, twoVars, marketVars>>

\* the same call with the roles exchanged: perform_recon(exotics_df, mars_df)
ReconSwapped ==
    /\ recon_results.called
    /\ ~recon_swapped.called
    /\ recon_swapped' = perform_recon(exotics_df, mars_df)
    /\ exotics_df' = ArgsAfterRecon(exotics_df, mars_df)[1]
    /\ mars_df' = ArgsAfterRecon(exotics_df, mars_df)[2]
    /\ UNCHANGED <<astype_str_na, recon_results, recon_again, sessionVars, fileVars, pc, normVars, storeVars, formVars, data_loaded, saveVars, twoVars, marketVars>>

\* the first call repeated on the same arguments
ReconAgain ==
    /\ recon_results.called
    /\ ~recon_again.called
    /\ recon_again' = perform_recon(mars_df, exotics_df)
    /\ mars_df' = ArgsAfterRecon(mars_df, exotics_df)[1]
    /\ exotics_df' = ArgsAfterRecon(mars_df, exotics_df)[2]
    /\ UNCHANGED <<astype_str_na, recon_results, recon_swapped, sessionVars, fileVars, pc, normVars, storeVars, formVars, data_loaded, saveVars, twoVars, marketVars>>

NextRecon == Recon \/ ReconSwapped \/ ReconAgain

SpecRecon == InitRecon /\ [][NextRecon]_vars

(***************************************************************************)
(* Spec: one browser session.  Each interaction runs the page script once; *)
(* a handler that mutates the collections saves them and calls st.rerun(), *)
(* and the next run renders the page, reconciliation section included.     *)
(***************************************************************************)
\* what the user may type into the "Trade ID*" text input
SessionIds == {"", "T1"}

\* datetime.now().date()
Today == DateVal("2025-01-15")

\* dict with key c set to v
Put(d, c, v) == [x \in DOMAIN d \cup {c} |-> IF x = c THEN v ELSE d[x]]

\* del lst[i]
RemoveLast(lst, i) == SubSeq(lst, 1, Len(lst) - 1)
RemoveAt(lst, i) == [j \in 1..(Len(lst) - 1) |-> IF j < i THEN lst[j] ELSE lst[j + 1]]

\* src/app.py:775-795 (the fields this model follows)
NewVanillaTrade(id) ==
    [trade_date |-> Today, trade_id |-> StrVal(id),
     notional_mm |-> FloatVal(1), contracts |-> NoneVal,
     payoff_type |-> StrVal("Call"), cost_usd |-> FloatVal(5),
     source |-> StrVal("Manual"), trade_type |-> StrVal("Vanilla")]

\* src/app.py:913-935 (the fields this model follows)
NewExoticTrade(id) ==
    [trade_date |-> Today, trade_id |-> StrVal(id),
     notional_mm |-> FloatVal(1), logic |-> StrVal("AND"),
     cost_usd |-> NoneVal, payoff_type |-> StrVal("Dual Digital"),
     source |-> StrVal("Manual"), trade_type |-> StrVal("Exotic")]

\* one cell as DataFrame.to_csv writes it
CsvText(v) == IF notna(v) THEN PyStr(v) ELSE ""

\* DataFrame.to_csv(path, index=False)
to_csv(df) ==
    [exists |-> TRUE, columns |-> df.columns,
     rows |-> [i \in DOMAIN df.rows |-> [c \in df.columns |-> CsvText(df.rows[i][c])]]]

\* save_live_trades (src/utils/data_storage.py:25-56): the file it writes
\* lines 33-35 / 39-41: trade_copy = trade.copy(); trade_copy['trade_type'] = ...
TagTradeKeepOwnType(trade, type) ==
    IF "trade_type" \in DOMAIN trade THEN trade ELSE Put(trade, "trade_type", StrVal(type))
TagTrade(trade, type) == Put(trade, "trade_type", StrVal(type))

save_live_trades(vanilla_trades, exotic_trades) ==
    LET all_trades ==
            [i \in DOMAIN vanilla_trades |-> TagTrade(vanilla_trades[i], "Vanilla")]
            \o [i \in DOMAIN exotic_trades |-> TagTrade(exotic_trades[i], "Exotic")]
    IN to_csv(DataFrame(all_trades))

\* the two lists handed to save_live_trades as the call leaves them: the tag
\* is written on a copy of each record
ArgsAfterSave(vanilla_trades, exotic_trades) == <<vanilla_trades, exotic_trades>>

\* save_trade_history (src/utils/data_storage.py:58-74): the file it writes
save_trade_history(history) == to_csv(DataFrame(history))

\* the writes a session may find failing: none, every write of the live
\* file, every write of the history file (a file that cannot be opened for
\* writing is left as it was)
DiskFaults == {"live_fails", "history_fails"}

\* except Exception (src/app.py:476): the fault of a save is caught
auto_save_propagates(fault) == FALSE
auto_save_catches(fault) == TRUE

\* auto_save_data (src/app.py:471-477) on the collections as the handler left
\* them: save_live_trades, then save_trade_history; each logs and re-raises
\* its fault (src/utils/data_storage.py:54-56, 72-74), so a fault of the
\* first skips the second, and the handler of line 476 surfaces st.warning
AutoSave ==
    /\ live_file' = IF disk = "live_fails" THEN live_file
                    ELSE save_live_trades(manual_vanilla_trades', manual_trades')
    /\ history_file' = IF disk = "ok" THEN save_trade_history(trade_history')
                       ELSE history_file
    /\ save_outcome' = IF disk = "ok" THEN "saved"
                       ELSE IF auto_save_catches("OSError") THEN "warned" ELSE "raised"

\* st.rerun(): the run stops where it is, and what it had built (the two
\* DataFrames, the reconciliation results) is gone
Rerun ==
    /\ pc' = "rerun"
    /\ mars_df' = EmptyFrame
    /\ exotics_df' = EmptyFrame
    /\ recon_results' = NoResult

\* "Add Vanilla Trade" submitted (src/app.py:754-805)
AddVanilla ==
    /\ pc = "idle"
    /\ Len(manual_vanilla_trades) < MaxTrades
    /\ \E id \in SessionIds :
          manual_vanilla_trades' = Append(manual_vanilla_trades, NewVanillaTrade(id))
    /\ UNCHANGED <<manual_trades, trade_history>>
    /\ AutoSave
    /\ Rerun
    /\ UNCHANGED <<astype_str_na, recon_swapped, recon_again, normVars, storeVars, formVars, data_loaded, disk, twoVars, marketVars>>

\* "Add Exotic Trade" submitted (src/app.py:890-945)
AddExotic ==
    /\ pc = "idle"
    /\ Len(manual_trades) < MaxTrades
    /\ \E id \in SessionIds :
          manual_trades' = Append(manual_trades, NewExoticTrade(id))
    /\ UNCHANGED <<manual_vanilla_trades, trade_history>>
    /\ AutoSave
    /\ Rerun
    /\ UNCHANGED <<astype_str_na, recon_swapped, recon_again, normVars, storeVars, formVars, data_loaded, disk, twoVars, marketVars>>

\* bool(x) of a number, NaN or None held in a record: NaN is a non-zero float
Truthy(v) == v.k = "nan" \/ (v.k \in {"int", "float"} /\ v.n # 0)

\* float arithmetic on cells: NaN propagates
Neg(v) == IF v.k = "nan" THEN NaN ELSE FloatVal(-v.n)
Times(price, v) == IF v.k = "nan" THEN NaN ELSE FloatVal(price * v.n)
Minus(v, w) == IF v.k = "nan" \/ w.k = "nan" THEN NaN ELSE FloatVal(v.n - w.n)

\* the history entry of a trade expired worthless (src/app.py:1108-1112)
ExpiredCopy(trade) ==
    LET cost == IF "cost_usd" \in DOMAIN trade THEN trade.cost_usd ELSE NoneVal
        pnl == IF Truthy(cost) THEN Neg(cost) ELSE IntVal(0)
    IN Put(Put(Put(Put(trade, "status", StrVal("Expired Worthless")),
                   "unwind_date", Today),
               "unwind_price", FloatVal(0)),
           "pnl_usd", pnl)

\* "Expire" pressed on vanilla trade i (src/app.py:1106-1122)
ExpireVanilla ==
    /\ pc = "idle"
    /\ Len(trade_history) < MaxHistory
    /\ \E i \in DOMAIN manual_vanilla_trades :
          /\ trade_history' = Append(trade_history, ExpiredCopy(manual_vanilla_trades[i]))
          /\ manual_vanilla_trades' = RemoveAt(manual_vanilla_trades, i)
    /\ UNCHANGED manual_trades
    /\ AutoSave
    /\ Rerun
    /\ UNCHANGED <<astype_str_na, recon_swapped, recon_again, normVars, storeVars, formVars, data_loaded, disk, twoVars, marketVars>>

\* "Expire" pressed on exotic trade i (src/app.py:1329-1349)
ExpireExotic ==
    /\ pc = "idle"
    /\ Len(trade_history) < MaxHistory
    /\ \E i \in DOMAIN manual_trades :
          /\ trade_history' = Append(trade_history, ExpiredCopy(manual_trades[i]))
          /\ manual_trades' = RemoveAt(manual_trades, i)
    /\ UNCHANGED manual_vanilla_trades
    /\ AutoSave
    /\ Rerun
    /\ UNCHANGED <<astype_str_na, recon_swapped, recon_again, normVars, storeVars, formVars, data_loaded, disk, twoVars, marketVars>>

\* "Delete" pressed on vanilla trade i (src/app.py:1124-1129)
DeleteVanillaAtNoSave(i) ==
    /\ pc = "idle"
    /\ i \in DOMAIN manual_vanilla_trades
    /\ manual_vanilla_trades' = RemoveAt(manual_vanilla_trades, i)
    /\ Rerun
    /\ UNCHANGED <<astype_str_na, manual_trades, trade_history, fileVars, recon_swapped,
                   recon_again, normVars, storeVars, formVars, data_loaded, saveVars, twoVars, marketVars>>
DeleteVanillaAt(i) ==
    /\ pc = "idle"
    /\ i \in DOMAIN manual_vanilla_trades
    /\ manual_vanilla_trades' = RemoveAt(manual_vanilla_trades, i)
    /\ UNCHANGED <<manual_trades, trade_history>>
    /\ AutoSave
    /\ Rerun
    /\ UNCHANGED <<astype_str_na, recon_swapped, recon_again, normVars, storeVars, formVars, data_loaded, disk, twoVars, marketVars>>

DeleteVanilla == \E i \in DOMAIN manual_vanilla_trades : DeleteVanillaAt(i)

\* "Delete" pressed on exotic trade i (src/app.py:1351-1356)
DeleteExoticAt(i) ==
    /\ pc = "idle"
    /\ i \in DOMAIN manual_trades
    /\ manual_trades' = RemoveAt(manual_trades, i)
    /\ UNCHANGED <<manual_vanilla_trades, trade_history>>
    /\ AutoSave
    /\ Rerun
    /\ UNCHANGED <<astype_str_na, recon_swapped, recon_again, normVars, storeVars, formVars, data_loaded, disk, twoVars, marketVars>>

DeleteExotic == \E i \in DOMAIN manual_trades : DeleteExoticAt(i)

(***************************************************************************)
(* Text.  TLC's strings are atoms, so text that the code lower-cases,      *)
(* strips, upper-cases or searches is held as a sequence of one-character  *)
(* strings; Join turns such a sequence into a string.                      *)
(***************************************************************************)
Uppers == <<"A", "B", "C", "D", "E", "F", "G", "H", "I", "J", "K", "L", "M",
            "N", "O", "P", "Q", "R", "S", "T", "U", "V", "W", "X", "Y", "Z">>
Lowers == <<"a", "b", "c", "d", "e", "f", "g", "h", "i", "j", "k", "l", "m",
            "n", "o", "p", "q", "r", "s", "t", "u", "v", "w", "x", "y", "z">>
Whitespace == {" ", "\t"}

\* each upper-case letter's lower-case letter, and the reverse
LowerOf == [c \in {Uppers[k] : k \in DOMAIN Uppers} |->
               Lowers[CHOOSE k \in DOMAIN Uppers : Uppers[k] = c]]
UpperOf == [c \in {Lowers[k] : k \in DOMAIN Lowers} |->
               Uppers[CHOOSE k \in DOMAIN Lowers : Lowers[k] = c]]

\* str.lower
str_lower(t) == [i \in DOMAIN t |-> IF t[i] \in DOMAIN LowerOf THEN LowerOf[t[i]] ELSE t[i]]

\* str.upper
str_upper(t) == [i \in DOMAIN t |-> IF t[i] \in DOMAIN UpperOf THEN UpperOf[t[i]] ELSE t[i]]

\* str.strip
RECURSIVE str_lstrip(_)
str_lstrip(t) == IF t # <<>> /\ Head(t) \in Whitespace THEN str_lstrip(Tail(t)) ELSE t
RECURSIVE str_rstrip(_)
str_rstrip(t) ==
    IF t # <<>> /\ t[Len(t)] \in Whitespace THEN str_rstrip(SubSeq(t, 1, Len(t) - 1)) ELSE t
str_strip(t) == str_rstrip(str_lstrip(t))

\* sub in t
Contains(t, sub) ==
    \E i \in 0..(Len(t) - Len(sub)) : SubSeq(t, i + 1, i + Len(sub)) = sub

RECURSIVE Join(_)
Join(t) == IF t = <<>> THEN "" ELSE Head(t) \o Join(Tail(t))

\* the characters of the texts that occur in cells of uploaded tables
Chars(s) ==
    CASE s = "SPY US Equity" -> <<"S", "P", "Y", " ", "U", "S", " ", "E", "q", "u", "i", "t", "y">>
      [] s = "QQQ US Equity" -> <<"Q", "Q", "Q", " ", "U", "S", " ", "E", "q", "u", "i", "t", "y">>
      [] s = "cdx hy" -> <<"c", "d", "x", " ", "h", "y">>
      [] s = "T1" -> <<"T", "1">>
      [] s = "Put" -> <<"P", "u", "t">>
      [] s = "tbd" -> <<"t", "b", "d">>
      [] s = "2025-12-19" -> <<"2", "0", "2", "5", "-", "1", "2", "-", "1", "9">>
      [] s = "600" -> <<"6", "0", "0">>
      [] s = "" -> <<>>
      [] s = "1" -> <<"1">>
      [] s = "0" -> <<"0">>
      [] s = "nan" -> <<"n", "a", "n">>
      [] s = "1.0" -> <<"1", ".", "0">>
      [] s = "5.0" -> <<"5", ".", "0">>
      [] s = "0.0" -> <<"0", ".", "0">>
      [] s = "-5.0" -> <<"-", "5", ".", "0">>
      [] s = "2025-01-15" -> <<"2", "0", "2", "5", "-", "0", "1", "-", "1", "5">>
      [] s = "Call" -> <<"C", "a", "l", "l">>
      [] s = "AND" -> <<"A", "N", "D">>
      [] s = "Manual" -> <<"M", "a", "n", "u", "a", "l">>
      [] s = "Vanilla" -> <<"V", "a", "n", "i", "l", "l", "a">>
      [] s = "Exotic" -> <<"E", "x", "o", "t", "i", "c">>
      [] s = "Dual Digital" -> <<"D", "u", "a", "l", " ", "D", "i", "g", "i", "t", "a", "l">>
      [] s = "Expired Worthless" ->
            <<"E", "x", "p", "i", "r", "e", "d", " ", "W", "o", "r", "t", "h", "l", "e", "s", "s">>

DigitChars == {Digit[i] : i \in DOMAIN Digit}
DigitValue(c) == (CHOOSE i \in DOMAIN Digit : Digit[i] = c) - 1

\* int(text) for a text of digits
RECURSIVE NatOf(_)
NatOf(t) == IF t = <<>> THEN 0 ELSE 10 * NatOf(SubSeq(t, 1, Len(t) - 1)) + DigitValue(t[Len(t)])

(***************************************************************************)
(* The column normalizers load_mars_data and load_exotics_data             *)
(* (src/app.py:103-260).  An upload is what pd.read_csv / pd.read_excel    *)
(* made of the file: the header texts in column order and the rows, each   *)
(* row a sequence of cells in the same order; readable = FALSE is a file   *)
(* the reader raises on.                                                   *)
(***************************************************************************)
Field(name, aliases) == [name |-> name, aliases |-> aliases]

\* src/app.py:121-135
mars_columns ==
    <<Field("trade_date", <<"trade_date", "date", "trade date">>),
      Field("trade_id", <<"trade_id", "tradeid", "id", "trade id">>),
      Field("book", <<"book", "portfolio">>),
      Field("strategy", <<"strategy", "strat">>),
      Field("side", <<"side", "direction">>),
      Field("index", <<"index", "underlying", "ticker">>),
      Field("bbg_ticker", <<"bbg_ticker", "bloomberg_ticker", "bbg ticker", "ticker">>),
      Field("notional_mm_or_contracts", <<"notional_mm_or_contracts", "notional", "size">>),
      Field("expiry", <<"expiry", "expiration", "maturity">>),
      Field("payoff_type", <<"payoff_type", "payoff", "product_type">>),
      Field("strike", <<"strike", "strike_price">>),
      Field("cost_bp_or_pt", <<"cost_bp_or_pt", "cost_bp", "premium_bp">>),
      Field("cost_usd", <<"cost_usd", "cost", "premium_usd">>)>>

\* src/app.py:210-227
exotics_columns ==
    <<Field("trade_date", <<"trade_date", "date", "trade date">>),
      Field("trade_id", <<"trade_id", "tradeid", "id", "trade id">>),
      Field("book", <<"book", "portfolio">>),
      Field("strategy", <<"strategy", "strat">>),
      Field("side", <<"side", "direction">>),
      Field("notional_mm", <<"notional_mm", "notional", "size">>),
      Field("expiry", <<"expiry", "expiration", "maturity">>),
      Field("index1", <<"index1", "underlying1", "ticker1">>),
      Field("cond1", <<"cond1", "condition1", "barrier_type1">>),
      Field("strike1", <<"strike1", "strike_1", "barrier1">>),
      Field("index2", <<"index2", "underlying2", "ticker2">>),
      Field("cond2", <<"cond2", "condition2", "barrier_type2">>),
      Field("strike2", <<"strike2", "strike_2", "barrier2">>),
      Field("logic", <<"logic", "and_or", "operator">>),
      Field("cost_bp", <<"cost_bp", "premium_bp", "cost">>),
      Field("cost_usd", <<"cost_usd", "premium_usd", "cost_dollars">>)>>

\* src/app.py:178-181, 246-249
date_cols == {"trade_date", "expiry"}
\* src/app.py:183
mars_numeric_cols == {"notional_mm_or_contracts", "strike", "cost_bp_or_pt", "cost_usd"}
\* src/app.py:251
exotics_numeric_cols == {"notional_mm", "strike1", "strike2", "cost_bp", "cost_usd"}

\* df.columns.str.lower().str.strip(), one header
NormHeader(h) == Join(str_strip(str_lower(h)))

\* the frame after line 115 / 207: normalised header texts, rows as read
NormalizedInput(up) ==
    [columns |-> [i \in DOMAIN up.headers |-> NormHeader(up.headers[i])], rows |-> up.rows]

\* lines 141-145: the first of possible_names that is a column of df, "" for None
MatchedColLast(possible_names, columns) ==
    LET hits == {k \in DOMAIN possible_names :
                    \E i \in DOMAIN columns : columns[i] = possible_names[k]}
    IN IF hits = {} THEN ""
       ELSE possible_names[CHOOSE k \in hits : \A j \in hits : j <= k]
MatchedCol(possible_names, columns) ==
    LET hits == {k \in DOMAIN possible_names :
                    \E i \in DOMAIN columns : columns[i] = possible_names[k]}
    IN IF hits = {} THEN ""
       ELSE possible_names[CHOOSE k \in hits : \A j \in hits : k <= j]

\* standardized[name] = <scalar>: every row of the frame gets the value; a
\* frame that has no row yet gets the column and still no row
SetScalar(frame, name, v) ==
    [columns |-> frame.columns \cup {name},
     rows |-> [i \in DOMAIN frame.rows |-> Put(frame.rows[i], name, v)]]

\* standardized[name] = <Series>: a frame that has no row yet takes the
\* Series' index and fills the columns it already has with NaN
SetSeries(frame, name, values) ==
    IF frame.rows = <<>> /\ values # <<>>
    THEN [columns |-> frame.columns \cup {name},
          rows |-> [i \in DOMAIN values |->
                      [c \in frame.columns \cup {name} |-> IF c = name THEN values[i] ELSE NaN]]]
    ELSE [columns |-> frame.columns \cup {name},
          rows |-> [i \in DOMAIN frame.rows |->
                      Put(frame.rows[i], name, IF i \in DOMAIN values THEN values[i] ELSE NaN)]]

\* lines 140-150 for one canonical field.  df[matched_col] is a DataFrame,
\* not a Series, when two columns carry the name, and the assignment then
\* raises ValueError (ok = FALSE).
MapFieldSkipUnmatched(frame, field, df) ==
    LET matched_col == MatchedCol(field.aliases, df.columns)
        named == {i \in DOMAIN df.columns : df.columns[i] = matched_col}
    IN IF matched_col = "" THEN [ok |-> TRUE, frame |-> frame]
       ELSE IF Cardinality(named) > 1 THEN [ok |-> FALSE, frame |-> frame]
       ELSE [ok |-> TRUE,
             frame |-> SetSeries(frame, field.name,
                          [i \in DOMAIN df.rows |-> df.rows[i][CHOOSE j \in named : TRUE]])]
MapField(frame, field, df) ==
    LET matched_col == MatchedCol(field.aliases, df.columns)
        named == {i \in DOMAIN df.columns : df.columns[i] = matched_col}
    IN IF matched_col = "" THEN [ok |-> TRUE, frame |-> SetScalar(frame, field.name, NaN)]
       ELSE IF Cardinality(named) > 1 THEN [ok |-> FALSE, frame |-> frame]
       ELSE [ok |-> TRUE,
             frame |-> SetSeries(frame, field.name,
                          [i \in DOMAIN df.rows |-> df.rows[i][CHOOSE j \in named : TRUE]])]

\* the mapping loop from the k-th field of the table on
RECURSIVE MapColumns(_, _, _, _)
MapColumns(k, table, df, frame) ==
    IF k > Len(table) THEN [ok |-> TRUE, frame |-> frame]
    ELSE LET step == MapField(frame, table[k], df)
         IN IF step.ok THEN MapColumns(k + 1, table, df, step.frame) ELSE step

\* lines 158-167
detect_vanilla_trade(row) ==
    \E field \in {"index", "bbg_ticker"} :
        /\ field \in DOMAIN row
        /\ notna(row[field])
        /\ LET ticker == str_upper(Chars(PyStr(row[field])))
           IN Contains(ticker, <<"S", "P", "Y">>) \/ Contains(ticker, <<"C", "D", "X">>)

\* line 171: vanilla_mask
vanilla_mask(frame) == [i \in DOMAIN frame.rows |-> detect_vanilla_trade(frame.rows[i])]

\* line 172 writes the text 'Vanilla' into the masked rows of payoff_type.
\* A payoff_type column with no text in it (no alias matched, or only empty
\* cells) is float64: pandas 1.x/2.x widen it to object (2.1+ with a
\* FutureWarning), pandas 3 raises TypeError.
PayoffSetitemRaises(frame) ==
    /\ astype_str_na = "missing"
    /\ ~empty(frame)
    /\ \E i \in DOMAIN frame.rows : vanilla_mask(frame)[i]
    /\ \A i \in DOMAIN frame.rows : ~notna(Cell(frame.rows[i], "payoff_type"))

\* lines 170-175
AutoDetectPayoffUnknownFirst(frame) ==
    IF empty(frame) THEN frame
    ELSE [frame EXCEPT !.rows =
            [i \in DOMAIN frame.rows |->
                IF notna(frame.rows[i].payoff_type) THEN frame.rows[i]
                ELSE Put(frame.rows[i], "payoff_type", StrVal("Unknown"))]]
AutoDetectPayoff(frame) ==
    IF empty(frame) THEN frame
    ELSE LET masked == [i \in DOMAIN frame.rows |->
                           IF vanilla_mask(frame)[i] /\ ~notna(frame.rows[i].payoff_type)
                           THEN Put(frame.rows[i], "payoff_type", StrVal("Vanilla"))
                           ELSE frame.rows[i]]
         IN [frame EXCEPT !.rows =
                [i \in DOMAIN masked |->
                    IF notna(masked[i].payoff_type) THEN masked[i]
                    ELSE Put(masked[i], "payoff_type", StrVal("Unknown"))]]

\* a text of the form dddd-dd-dd
IsIsoDate(t) ==
    /\ Len(t) = 10
    /\ t[5] = "-" /\ t[8] = "-"
    /\ \A i \in {1, 2, 3, 4, 6, 7, 9, 10} : t[i] \in DigitChars

\* pd.to_datetime(..., errors='coerce'), one cell: a number counts
\* nanoseconds from the epoch, a text that is no date becomes NaT
to_datetime(v) ==
    CASE v.k = "str" -> IF IsIsoDate(Chars(v.s)) THEN DateVal(v.s) ELSE NaN
      [] v.k \in {"int", "float"} -> DateVal("1970-01-01")
      [] v.k = "date" -> v
      [] v.k = "nan" -> NaN

\* pd.to_numeric(..., errors='coerce'), one cell
to_numeric_cell(v) ==
    CASE v.k = "str" ->
            LET t == str_strip(Chars(v.s))
            IN IF t # <<>> /\ \A i \in DOMAIN t : t[i] \in DigitChars
               THEN IntVal(NatOf(t)) ELSE NaN
      [] v.k \in {"int", "float"} -> v
      [] v.k \in {"date", "nan"} -> NaN

\* pd.to_numeric(..., errors='coerce'), one column: a column with a missing
\* or float cell is float64
to_numeric(values) ==
    LET parsed == [i \in DOMAIN values |-> to_numeric_cell(values[i])]
    IN IF \E i \in DOMAIN parsed : parsed[i].k \in {"nan", "float"}
       THEN [i \in DOMAIN parsed |->
                IF parsed[i].k = "int" THEN FloatVal(parsed[i].n) ELSE parsed[i]]
       ELSE parsed

\* lines 177-186 / 245-254
ConvertTypes(frame, numeric_cols) ==
    [frame EXCEPT !.rows =
        [i \in DOMAIN frame.rows |->
            [c \in frame.columns |->
                IF c \in date_cols THEN to_datetime(frame.rows[i][c])
                ELSE IF c \in numeric_cols
                     THEN to_numeric([j \in DOMAIN frame.rows |-> frame.rows[j][c]])[i]
                     ELSE frame.rows[i][c]]]]

\* what a normalizer's call gives: the frame returned, whether st.error was
\* shown, and whether the call ended in an exception instead of returning
Loaded(frame) == [frame |-> frame, error |-> FALSE, raised |-> FALSE]
LoadFailed == [frame |-> EmptyFrame, error |-> TRUE, raised |-> FALSE]
Propagated == [frame |-> EmptyFrame, error |-> FALSE, raised |-> TRUE]

\* `except Exception as e:` (src/app.py:199, 258; data_storage.py:105, 133,
\* 163): the faults of the try body that
\* the handler takes
except_OnlyValueError(fault) == fault = "ValueError"
except_Exception(fault) ==
    fault \in {"ParserError", "EmptyDataError", "KeyError", "ValueError", "TypeError"}

\* lines 199-201 / 258-260 on a fault raised in the try body
OnFault(fault) == IF except_Exception(fault) THEN LoadFailed ELSE Propagated

\* load_mars_data (src/app.py:103-201)
load_mars_data(up) ==
    IF ~up.readable THEN OnFault("ParserError")
    ELSE LET mapped == MapColumns(1, mars_columns, NormalizedInput(up), EmptyFrame)
             sourced == SetScalar(mapped.frame, "source", StrVal("MARS"))
         IN IF ~mapped.ok THEN OnFault("ValueError")
            ELSE IF PayoffSetitemRaises(sourced) THEN OnFault("TypeError")
            ELSE Loaded(ConvertTypes(AutoDetectPayoff(sourced), mars_numeric_cols))

\* load_exotics_data (src/app.py:203-260)
load_exotics_data(up) ==
    IF ~up.readable THEN OnFault("ParserError")
    ELSE LET mapped == MapColumns(1, exotics_columns, NormalizedInput(up), EmptyFrame)
         IN IF ~mapped.ok THEN OnFault("ValueError")
            ELSE Loaded(ConvertTypes(
                     SetScalar(SetScalar(mapped.frame, "source", StrVal("Manual")),
                               "payoff_type", StrVal("Dual Digital")),
                     exotics_numeric_cols))

(***************************************************************************)
(* SpecNorm: each normalizer on every upload within the bounds.            *)
(***************************************************************************)
RawHeaders ==
    <<<<"t", "r", "a", "d", "e", "_", "i", "d">>,
      <<"i", "d">>,
      <<"I", "D">>,
      <<"T", "i", "c", "k", "e", "r">>,
      <<" ", "i", "n", "d", "e", "x", " ">>,
      <<"p", "a", "y", "o", "f", "f", "_", "t", "y", "p", "e">>,
      <<"C", "o", "s", "t">>,
      <<"d", "a", "t", "e">>,
      <<"f", "o", "o">>>>

\* the cells a column under each of RawHeaders may hold
CellsFor ==
    <<{StrVal("T1"), IntVal(1)},
      {StrVal("T1"), IntVal(1)},
      {StrVal("T1")},
      {StrVal("SPY US Equity"), StrVal("QQQ US Equity")},
      {StrVal("cdx hy"), NaN},
      {StrVal("Put"), NaN},
      {IntVal(600), StrVal("tbd")},
      {StrVal("2025-12-19"), StrVal("tbd")},
      {NaN}>>

UploadCells == UNION {CellsFor[h] : h \in DOMAIN CellsFor}

\* the members of a set of numbers in increasing order
RECURSIVE Sorted(_)
Sorted(S) ==
    IF S = {} THEN <<>>
    ELSE LET least == CHOOSE x \in S : \A y \in S : x <= y
         IN <<least>> \o Sorted(S \ {least})

\* the readable uploads: between one and MaxHeaders of RawHeaders, in the
\* order of RawHeaders, and up to MaxUploadRows rows
Uploads ==
    UNION {
        LET picked == Sorted(S)
        IN {[readable |-> TRUE,
             headers |-> [j \in DOMAIN picked |-> RawHeaders[picked[j]]],
             rows |-> rs] :
                rs \in UNION {[1..n -> {r \in [DOMAIN picked -> UploadCells] :
                                            \A j \in DOMAIN picked : r[j] \in CellsFor[picked[j]]}] :
                              n \in 0..MaxUploadRows}}
        : S \in {T \in SUBSET DOMAIN RawHeaders : T # {} /\ Cardinality(T) <= MaxHeaders}}

Unreadable == [readable |-> FALSE, headers |-> <<>>, rows |-> <<>>]

InitNorm ==
    /\ astype_str_na \in AstypeBuilds
    /\ upload \in Uploads \cup {Unreadable}
    /\ schema = "none"
    /\ standardized = EmptyFrame
    /\ st_error = FALSE
    /\ raised = FALSE
    /\ mars_df = EmptyFrame
    /\ exotics_df = EmptyFrame
    /\ recon_results = NoResult
    /\ recon_swapped = NoResult
    /\ recon_again = NoResult
    /\ SessionIdle

\* standardized = load_mars_data(file)
LoadMars ==
    /\ schema = "none"
    /\ schema' = "mars"
    /\ LET result == load_mars_data(upload)
       IN /\ standardized' = result.frame
          /\ st_error' = result.error
          /\ raised' = result.raised
    /\ UNCHANGED <<astype_str_na, upload, reconVars, sessionVars, fileVars, pc, storeVars, formVars, data_loaded, saveVars, twoVars, marketVars>>

\* standardized = load_exotics_data(file)
LoadExotics ==
    /\ schema = "none"
    /\ schema' = "exotics"
    /\ LET result == load_exotics_data(upload)
       IN /\ standardized' = result.frame
          /\ st_error' = result.error
          /\ raised' = result.raised
    /\ UNCHANGED <<astype_str_na, upload, reconVars, sessionVars, fileVars, pc, storeVars, formVars, data_loaded, saveVars, twoVars, marketVars>>

NextNorm == LoadMars \/ LoadExotics

SpecNorm == InitNorm /\ [][NextNorm]_vars

(***************************************************************************)
(* The CSV store (src/utils/data_storage.py).  A file is [exists, columns, *)
(* rows]: the header names and, per row, the text under each header.       *)
(***************************************************************************)
\* texts that pd.read_csv takes for a missing value
NaTexts == {"", "nan"}

\* a text of digits, with or without a leading minus sign
IsIntText(t) ==
    LET digits == IF t # <<>> /\ Head(t) = "-" THEN Tail(t) ELSE t
    IN digits # <<>> /\ \A i \in DOMAIN digits : digits[i] \in DigitChars

\* an integer text followed by ".0"
IsFloatText(t) ==
    /\ Len(t) > 2
    /\ t[Len(t) - 1] = "." /\ t[Len(t)] = "0"
    /\ IsIntText(SubSeq(t, 1, Len(t) - 2))

\* int(text)
IntOf(t) == IF Head(t) = "-" THEN -NatOf(Tail(t)) ELSE NatOf(t)

\* the cells pd.read_csv makes of one column of texts: whole numbers when
\* every text is one, floats when every text is a number or some are missing
\* among numbers, otherwise the texts themselves; a missing text is NaN
read_csv_column(texts) ==
    LET present == {i \in DOMAIN texts : texts[i] \notin NaTexts}
        allInt == \A i \in present : IsIntText(Chars(texts[i]))
        allNum == \A i \in present : IsIntText(Chars(texts[i])) \/ IsFloatText(Chars(texts[i]))
        number(i) == IF IsIntText(Chars(texts[i])) THEN IntOf(Chars(texts[i]))
                     ELSE IntOf(SubSeq(Chars(texts[i]), 1, Len(Chars(texts[i])) - 2))
    IN [i \in DOMAIN texts |->
          IF i \notin present THEN NaN
          ELSE IF allInt /\ present = DOMAIN texts THEN IntVal(number(i))
          ELSE IF allNum THEN FloatVal(number(i))
          ELSE StrVal(texts[i])]

\* pd.read_csv(path): a file without a header line raises EmptyDataError
read_csv(file) ==
    IF file.columns = {}
    THEN [fault |-> "EmptyDataError", frame |-> EmptyFrame]
    ELSE [fault |-> "none",
          frame |-> [columns |-> file.columns,
                     rows |-> [i \in DOMAIN file.rows |->
                                 [c \in file.columns |->
                                     read_csv_column([j \in DOMAIN file.rows |-> file.rows[j][c]])[i]]]]]

\* pd.to_datetime(column).dt.date (no errors='coerce'): a text that is no
\* date raises ValueError
DateColumnParses(df, c) ==
    \A i \in DOMAIN df.rows : df.rows[i][c].k = "str" => IsIsoDate(Chars(df.rows[i][c].s))

\* lines 88-92 / 120-126: the date columns of the frame that are converted
ParseDates(df, cols) ==
    IF \E c \in cols \cap df.columns : ~DateColumnParses(df, c)
    THEN [fault |-> "ValueError", frame |-> df]
    ELSE [fault |-> "none",
          frame |-> [df EXCEPT !.rows =
                        [i \in DOMAIN df.rows |->
                            [c \in df.columns |->
                                IF c \in cols THEN to_datetime(df.rows[i][c]) ELSE df.rows[i][c]]]]]

\* load_live_trades returned (vanilla_trades, exotic_trades) from its try body
LiveLoaded(vanilla_trades, exotic_trades) ==
    [called |-> TRUE, vanilla |-> vanilla_trades, exotic |-> exotic_trades,
     caught |-> FALSE, raised |-> FALSE]

\* lines 105-107 on a fault raised in the try body
LiveLoadFaultReraise(fault) ==
    [called |-> TRUE, vanilla |-> <<>>, exotic |-> <<>>, caught |-> TRUE, raised |-> TRUE]
LiveLoadFault(fault) ==
    IF except_Exception(fault)
    THEN [called |-> TRUE, vanilla |-> <<>>, exotic |-> <<>>, caught |-> TRUE, raised |-> FALSE]
    ELSE [called |-> TRUE, vanilla |-> <<>>, exotic |-> <<>>, caught |-> FALSE, raised |-> TRUE]

\* load_live_trades (lines 76-107)
load_live_trades(file) ==
    IF ~file.exists THEN LiveLoaded(<<>>, <<>>)
    ELSE LET read == read_csv(file)
             dated == ParseDates(read.frame, {"trade_date", "expiry"})
             df == dated.frame
         IN IF read.fault # "none" THEN LiveLoadFault(read.fault)
            ELSE IF empty(read.frame) THEN LiveLoaded(<<>>, <<>>)
            ELSE IF dated.fault # "none" THEN LiveLoadFault(dated.fault)
            ELSE IF "trade_type" \notin df.columns THEN LiveLoadFault("KeyError")
            ELSE LiveLoaded(
                    SelectSeq(df.rows, LAMBDA r : r.trade_type = StrVal("Vanilla")),
                    SelectSeq(df.rows, LAMBDA r : r.trade_type = StrVal("Exotic")))

HistoryLoaded(history) ==
    [called |-> TRUE, history |-> history, caught |-> FALSE, raised |-> FALSE]

\* lines 133-135 on a fault raised in the try body
HistoryLoadFault(fault) ==
    IF except_Exception(fault)
    THEN [called |-> TRUE, history |-> <<>>, caught |-> TRUE, raised |-> FALSE]
    ELSE [called |-> TRUE, history |-> <<>>, caught |-> FALSE, raised |-> TRUE]

\* load_trade_history (lines 109-135)
load_trade_history(file) ==
    IF ~file.exists THEN HistoryLoaded(<<>>)
    ELSE LET read == read_csv(file)
             dated == ParseDates(read.frame, {"trade_date", "expiry", "unwind_date"})
         IN IF read.fault # "none" THEN HistoryLoadFault(read.fault)
            ELSE IF empty(read.frame) THEN HistoryLoaded(<<>>)
            ELSE IF dated.fault # "none" THEN HistoryLoadFault(dated.fault)
            ELSE HistoryLoaded(dated.frame.rows)

\* lines 148-151 / 155-158: df = pd.read_csv(path); df.to_csv(backup_file)
BackupCopy(file) == to_csv(read_csv(file).frame)

\* backup_data (lines 137-165): True with the copies made, or False (line
\* 165) with the copies made before the fault
backup_data(live, history) ==
    IF live.exists /\ read_csv(live).fault # "none"
    THEN [called |-> TRUE, ok |-> ~except_Exception(read_csv(live).fault),
          live |-> NoFile, history |-> NoFile]
    ELSE LET live_copy == IF live.exists THEN BackupCopy(live) ELSE NoFile
         IN IF history.exists /\ read_csv(history).fault # "none"
            THEN [called |-> TRUE, ok |-> ~except_Exception(read_csv(history).fault),
                  live |-> live_copy, history |-> NoFile]
            ELSE [called |-> TRUE, ok |-> TRUE, live |-> live_copy,
                  history |-> IF history.exists THEN BackupCopy(history) ELSE NoFile]

(***************************************************************************)
(* SpecStore: saves, loads and backups on the two files, starting from     *)
(* files that are absent, written by an earlier run, or malformed.         *)
(***************************************************************************)
SeqsUpTo(S, n) == UNION {[1..k -> S] : k \in 0..n}

\* records a caller may hand to save_live_trades as vanilla: as the form
\* builds them, with a text id, a number-like id, a blank id, and one that
\* carries the other list's trade_type
StoreVanilla ==
    {NewVanillaTrade("T1"), NewVanillaTrade("1"), NewVanillaTrade(""),
     Put(NewVanillaTrade("T1"), "trade_type", StrVal("Exotic"))}

StoreExotic ==
    {NewExoticTrade("T1"), Put(NewExoticTrade("1"), "trade_type", StrVal("Vanilla"))}

StoreHistory == {ExpiredCopy(NewVanillaTrade("T1"))}

\* a live file with a header and no row; one without the trade_type column;
\* one whose trade_date is no date
HeaderOnlyLiveFile ==
    [exists |-> TRUE, columns |-> {"trade_id", "trade_type"}, rows |-> <<>>]
NoTradeTypeFile ==
    [exists |-> TRUE, columns |-> {"trade_id"}, rows |-> <<[trade_id |-> "T1"]>>]
BadDateFile ==
    [exists |-> TRUE, columns |-> {"trade_id", "trade_date", "trade_type"},
     rows |-> <<[trade_id |-> "T1", trade_date |-> "tbd", trade_type |-> "Vanilla"]>>]

\* (the store casts nothing to str: one pandas build stands for both)
InitStore ==
    /\ astype_str_na = "text"
    /\ mars_df = EmptyFrame
    /\ exotics_df = EmptyFrame
    /\ recon_results = NoResult
    /\ recon_swapped = NoResult
    /\ recon_again = NoResult
    /\ manual_vanilla_trades = <<>>
    /\ manual_trades = <<>>
    /\ trade_history = <<>>
    /\ live_file \in {NoFile, HeaderOnlyLiveFile, NoTradeTypeFile, BadDateFile}
    /\ history_file \in {NoFile, BadDateFile}
    /\ pc = "idle"
    /\ StoreIdle
    /\ unwind_vanilla_trade = {}
    /\ unwind_exotic_trade = {}
    /\ edit_vanilla_trade = {}
    /\ edit_exotic_trade = {}
    /\ data_loaded = FALSE
    /\ disk = "ok"
    /\ save_outcome = "none"
    /\ NoSessions
    /\ MarketIdle
    /\ NormIdle

\* save_live_trades(vanilla_trades, exotic_trades)
SaveLive ==
    /\ \E V \in SeqsUpTo(StoreVanilla, MaxStored) :
       \E E \in SeqsUpTo(StoreExotic, MaxStored - Len(V)) :
          /\ live_file' = save_live_trades(V, E)
          /\ manual_vanilla_trades' = ArgsAfterSave(V, E)[1]
          /\ manual_trades' = ArgsAfterSave(V, E)[2]
    /\ live_loaded' = NotLoaded
    /\ backup' = NoBackup
    /\ UNCHANGED <<astype_str_na, reconVars, trade_history, history_file, pc, normVars, formVars,
                   history_loaded, data_loaded, saveVars, twoVars, marketVars>>

\* save_trade_history(trade_history)
SaveHistory ==
    /\ \E H \in SeqsUpTo(StoreHistory, MaxHistory) :
          /\ history_file' = save_trade_history(H)
          /\ trade_history' = H
    /\ history_loaded' = HistoryNotLoaded
    /\ backup' = NoBackup
    /\ UNCHANGED <<astype_str_na, reconVars, manual_vanilla_trades, manual_trades, live_file,
                   pc, normVars, formVars, live_loaded, data_loaded, saveVars, twoVars, marketVars>>

\* load_live_trades()
LoadLive ==
    /\ ~live_loaded.called
    /\ live_loaded' = load_live_trades(live_file)
    /\ UNCHANGED <<astype_str_na, reconVars, sessionVars, fileVars, pc, normVars, formVars,
                   history_loaded, backup, data_loaded, saveVars, twoVars, marketVars>>

\* load_trade_history()
LoadHistory ==
    /\ ~history_loaded.called
    /\ history_loaded' = load_trade_history(history_file)
    /\ UNCHANGED <<astype_str_na, reconVars, sessionVars, fileVars, pc, normVars, formVars,
                   live_loaded, backup, data_loaded, saveVars, twoVars, marketVars>>

\* backup_data()
Backup ==
    /\ ~backup.called
    /\ backup' = backup_data(live_file, history_file)
    /\ UNCHANGED <<astype_str_na, reconVars, sessionVars, fileVars, pc, normVars, formVars,
                   live_loaded, history_loaded, data_loaded, saveVars, twoVars, marketVars>>

NextStore == SaveLive \/ SaveHistory \/ LoadLive \/ LoadHistory \/ Backup

SpecStore == InitStore /\ [][NextStore]_vars

(***************************************************************************)
(* Spec, continued: the runs of the page and the forms of the management   *)
(* section.                                                                *)
(***************************************************************************)
\* 'data_loaded' not in st.session_state (src/app.py:820)
NeedsLoadAlways(loaded) == TRUE
NeedsLoad(loaded) == ~loaded

\* the edit form of the vanilla management section (src/app.py:1175-1225)
\* can be drawn for the record: it reads trade['index1'], trade['cond1'],
\* ... trade['logic'], trade['cost_usd'] (KeyError when the key is absent)
\* and looks the value of logic up in ["AND", "OR"] (ValueError when it is
\* not there).  Of the exotic-only keys the records of this model carry logic.
EditFormRenders(trade) ==
    /\ {"trade_id", "trade_date", "notional_mm", "logic", "cost_usd"} \subseteq DOMAIN trade
    /\ trade.logic \in {StrVal("AND"), StrVal("OR")}
    /\ trade.notional_mm.k \in {"int", "float"}

\* some open edit form of a vanilla record makes the run raise
EditFormRaises(vanilla_trades) ==
    \E i \in DOMAIN vanilla_trades \cap edit_vanilla_trade : ~EditFormRenders(vanilla_trades[i])

\* A run of the page to its end.  On the first run of a session the
\* collections are loaded from the files (src/app.py:819-834).  They are
\* converted to DataFrames (lines 836-846); an edit form that cannot be drawn
\* ends the run with its exception; otherwise, when one of the frames has
\* rows (line 1051), the reconciliation section runs perform_recon on them
\* (lines 1362-1384).  mars_df / exotics_df are vanilla_data / exotics_data
\* as the run leaves them.
PageRunWith(live, hist) ==
    LET assign == NeedsLoad(data_loaded) /\ ~live.raised /\ ~hist.raised
        vanilla_trades == IF assign THEN live.vanilla ELSE manual_vanilla_trades
        exotic_trades == IF assign THEN live.exotic ELSE manual_trades
        history == IF assign THEN hist.history ELSE trade_history
        vanilla_data == DataFrame(vanilla_trades)
        exotics_data == DataFrame(exotic_trades)
    IN /\ manual_vanilla_trades' = vanilla_trades
       /\ manual_trades' = exotic_trades
       /\ trade_history' = history
       /\ data_loaded' = TRUE
       /\ IF (~empty(vanilla_data) \/ ~empty(exotics_data)) /\ ~EditFormRaises(vanilla_trades)
          THEN /\ recon_results' = perform_recon(vanilla_data, exotics_data)
               /\ mars_df' = ArgsAfterRecon(vanilla_data, exotics_data)[1]
               /\ exotics_df' = ArgsAfterRecon(vanilla_data, exotics_data)[2]
          ELSE /\ recon_results' = NoResult
               /\ mars_df' = vanilla_data
               /\ exotics_df' = exotics_data
       /\ pc' = "idle"

\* live and hist are what lines 822-823 load, when the run comes to them
PageRun == PageRunWith(load_live_trades(live_file), load_trade_history(history_file))

\* a run with no button pressed and no form submitted
Render ==
    /\ PageRun
    /\ UNCHANGED <<astype_str_na, recon_swapped, recon_again, fileVars, normVars, storeVars, formVars, saveVars, twoVars, marketVars>>

\* the number of pending-form flags that are set
OpenForms ==
    Cardinality(unwind_vanilla_trade) + Cardinality(unwind_exotic_trade)
    + Cardinality(edit_vanilla_trade) + Cardinality(edit_exotic_trade)

\* "Unwind" pressed on vanilla trade i (src/app.py:1102-1104): the flag of
\* position i is set and the run goes on, showing the form (line 1132)
PressUnwindVanilla ==
    /\ pc = "idle"
    /\ OpenForms < MaxOpenForms
    /\ \E i \in DOMAIN manual_vanilla_trades :
          unwind_vanilla_trade' = unwind_vanilla_trade \cup {i}
    /\ PageRun
    /\ UNCHANGED <<astype_str_na, recon_swapped, recon_again, fileVars, normVars, storeVars, unwind_exotic_trade, edit_vanilla_trade, edit_exotic_trade, saveVars, twoVars, marketVars>>

\* "Unwind" pressed on exotic trade i (src/app.py:1329-1331): the flag of
\* position i is set; no part of the page reads it
PressUnwindExotic ==
    /\ pc = "idle"
    /\ OpenForms < MaxOpenForms
    /\ \E i \in DOMAIN manual_trades :
          unwind_exotic_trade' = unwind_exotic_trade \cup {i}
    /\ PageRun
    /\ UNCHANGED <<astype_str_na, recon_swapped, recon_again, fileVars, normVars, storeVars, unwind_vanilla_trade, edit_vanilla_trade, edit_exotic_trade, saveVars, twoVars, marketVars>>

\* what the user may enter as "Unwind Price*"
UnwindPrices == {0, 7}

\* the history entry of an unwound vanilla trade (src/app.py:1143-1158)
UnwoundCopy(trade, unwind_vanilla_price) ==
    LET cost_usd == IF "cost_usd" \in DOMAIN trade THEN trade.cost_usd ELSE NoneVal
        contracts == IF "contracts" \in DOMAIN trade THEN trade.contracts ELSE NoneVal
        original_cost == IF Truthy(cost_usd) THEN cost_usd ELSE IntVal(0)
        unwind_value == IF Truthy(contracts)
                        THEN Times(unwind_vanilla_price, contracts)
                        ELSE Times(unwind_vanilla_price, trade.notional_mm)
        pnl == Minus(unwind_value, original_cost)
    IN Put(Put(Put(Put(Put(Put(trade, "status", StrVal("Unwound")),
                           "unwind_date", Today),
                       "unwind_price", FloatVal(unwind_vanilla_price)),
                   "unwind_value", unwind_value),
               "pnl_usd", pnl),
           "unwind_notes", StrVal(""))

\* "Unwind Trade" submitted in the form shown for vanilla trade i
\* (src/app.py:1131-1167); the flag of position i is left as it is
SubmitUnwindVanilla ==
    /\ pc = "idle"
    /\ Len(trade_history) < MaxHistory
    /\ \E i \in DOMAIN manual_vanilla_trades \cap unwind_vanilla_trade :
       \E price \in UnwindPrices :
          /\ trade_history' = Append(trade_history, UnwoundCopy(manual_vanilla_trades[i], price))
          /\ manual_vanilla_trades' = RemoveAt(manual_vanilla_trades, i)
    /\ UNCHANGED manual_trades
    /\ AutoSave
    /\ Rerun
    /\ UNCHANGED <<astype_str_na, recon_swapped, recon_again, normVars, storeVars, formVars, data_loaded, disk, twoVars, marketVars>>

\* "Cancel" submitted in the form shown for vanilla trade i
\* (src/app.py:1169-1172)
CancelUnwindVanilla ==
    /\ pc = "idle"
    /\ \E i \in DOMAIN manual_vanilla_trades \cap unwind_vanilla_trade :
          unwind_vanilla_trade' = unwind_vanilla_trade \ {i}
    /\ Rerun
    /\ UNCHANGED <<astype_str_na, recon_swapped, recon_again, sessionVars, fileVars, normVars, storeVars, unwind_exotic_trade, edit_vanilla_trade, edit_exotic_trade, data_loaded, saveVars, twoVars, marketVars>>

\* "Edit" pressed on vanilla trade i (src/app.py:1098-1100): the flag of
\* position i is set and the run goes on to the edit form (line 1175)
PressEditVanilla ==
    /\ pc = "idle"
    /\ OpenForms < MaxOpenForms
    /\ \E i \in DOMAIN manual_vanilla_trades :
          edit_vanilla_trade' = edit_vanilla_trade \cup {i}
    /\ PageRun
    /\ UNCHANGED <<astype_str_na, recon_swapped, recon_again, fileVars, normVars, storeVars, unwind_vanilla_trade, unwind_exotic_trade, edit_exotic_trade, saveVars, twoVars, marketVars>>

\* "Edit" pressed on exotic trade i (src/app.py:1325-1327): the flag of
\* position i is set; no part of the page reads it
PressEditExotic ==
    /\ pc = "idle"
    /\ OpenForms < MaxOpenForms
    /\ \E i \in DOMAIN manual_trades :
          edit_exotic_trade' = edit_exotic_trade \cup {i}
    /\ PageRun
    /\ UNCHANGED <<astype_str_na, recon_swapped, recon_again, fileVars, normVars, storeVars, unwind_vanilla_trade, unwind_exotic_trade, edit_vanilla_trade, saveVars, twoVars, marketVars>>

\* the dict that "Save Changes" builds (src/app.py:1235-1255), the Trade ID
\* retyped and the other inputs left at the values the form showed
EditedTrade(trade, edit_trade_id) ==
    [trade_date |-> trade.trade_date, trade_id |-> StrVal(edit_trade_id),
     notional_mm |-> FloatVal(trade.notional_mm.n), logic |-> trade.logic,
     cost_usd |-> IF trade.cost_usd.k \in {"int", "float"} /\ trade.cost_usd.n > 0
                  THEN FloatVal(trade.cost_usd.n) ELSE NoneVal,
     source |-> StrVal("Manual"), payoff_type |-> StrVal("Dual Digital")]

\* "Save Changes" submitted in the edit form shown for vanilla trade i
\* (src/app.py:1232-1260).  Line 1235 assigns st.session_state.manual_trades[i];
\* with no exotic trade at position i that is an IndexError, which ends the
\* run before anything is written.  Line 1256 sets the key edit_trade_{i},
\* which nothing reads; the flag edit_vanilla_trade_{i} is left as it is.
SaveEditVanillaAt(i) ==
    /\ pc = "idle"
    /\ i \in DOMAIN manual_vanilla_trades \cap edit_vanilla_trade
    /\ EditFormRenders(manual_vanilla_trades[i])
    /\ \E id \in SessionIds :
          IF i \in DOMAIN manual_trades
          THEN /\ manual_trades' = [manual_trades EXCEPT
                                      ![i] = EditedTrade(manual_vanilla_trades[i], id)]
               /\ UNCHANGED <<manual_vanilla_trades, trade_history>>
               /\ AutoSave
               /\ Rerun
          ELSE /\ UNCHANGED <<sessionVars, fileVars, pc, mars_df, exotics_df, recon_results,
                            save_outcome>>
    /\ UNCHANGED <<astype_str_na, recon_swapped, recon_again, normVars, storeVars, formVars, data_loaded, disk, twoVars, marketVars>>

SaveEditVanilla == \E i \in DOMAIN manual_vanilla_trades : SaveEditVanillaAt(i)

\* "Cancel" submitted in the edit form shown for vanilla trade i
\* (src/app.py:1262-1265): the key edit_trade_{i} is set, and the page re-run
CancelEditVanilla ==
    /\ pc = "idle"
    /\ \E i \in DOMAIN manual_vanilla_trades \cap edit_vanilla_trade :
          EditFormRenders(manual_vanilla_trades[i])
    /\ Rerun
    /\ UNCHANGED <<astype_str_na, recon_swapped, recon_again, sessionVars, fileVars, normVars, storeVars, formVars, data_loaded, saveVars, twoVars, marketVars>>

\* a live file an earlier version of the program, or a hand, has left: its
\* one row is tagged Vanilla and carries the fields of an exotic trade too
ForeignLiveFile ==
    to_csv(DataFrame(<<Put(NewVanillaTrade("T1"), "logic", StrVal("AND"))>>))

\* the live file a session may find at its start
StartLiveFiles == {NoFile, ForeignLiveFile, BadDateFile}

\* st.session_state.manual_exotic_trades as the portfolio view reads it
\* (src/app.py:954-955): no line of the program sets that key, so
\* hasattr(...) is False and nothing is taken (the exotic collection is
\* st.session_state.manual_trades)
manual_exotic_trades == <<>>

\* src/app.py:951-955
all_live_trades == manual_vanilla_trades \o manual_exotic_trades

\* the branch of lines 962 / 983 a record takes: "Vanilla", "Exotic", or
\* "none" when it is skipped
PortfolioType(trade) ==
    LET trade_type == IF "trade_type" \in DOMAIN trade THEN trade.trade_type ELSE NoneVal
        payoff_type == IF "payoff_type" \in DOMAIN trade THEN trade.payoff_type ELSE NoneVal
    IN IF trade_type = StrVal("Vanilla")
          \/ payoff_type \in {StrVal("Call"), StrVal("Put"), StrVal("Straddle"), StrVal("Strangle")}
       THEN "Vanilla"
       ELSE IF trade_type = StrVal("Exotic") \/ payoff_type = StrVal("Dual Digital")
            THEN "Exotic"
            ELSE "none"

\* portfolio_data (src/app.py:959-1002): one row per record that takes a
\* branch; of the columns the model follows 'Trade ID' and 'Type'
RECURSIVE portfolio_data(_)
portfolio_data(trades) ==
    IF trades = <<>> THEN <<>>
    ELSE LET trade == Head(trades)
         IN (IF PortfolioType(trade) = "none" THEN <<>>
             ELSE <<[trade_id |-> trade.trade_id, type |-> PortfolioType(trade)]>>)
            \o portfolio_data(Tail(trades))

\* the 'Live Trades - Portfolio View' of a run (src/app.py:947-1048): the
\* rows of df_with_totals, and whether "No live trades found" is shown
PortfolioView ==
    IF all_live_trades = <<>>
    THEN [rows |-> <<>>, no_live_trades |-> TRUE]
    ELSE IF portfolio_data(all_live_trades) = <<>>
         THEN [rows |-> <<>>, no_live_trades |-> FALSE]
         ELSE [rows |-> portfolio_data(all_live_trades)
                          \o <<[trade_id |-> StrVal("TOTAL"), type |-> ""]>>,
               no_live_trades |-> FALSE]

\* "Save Data Now" pressed (src/app.py:679-682): auto_save_data(), and the
\* run goes on
SaveNow ==
    /\ pc = "idle"
    /\ PageRun
    /\ AutoSave
    /\ UNCHANGED <<astype_str_na, recon_swapped, recon_again, normVars, storeVars, formVars, disk, twoVars, marketVars>>

\* a new session: nothing in st.session_state, no run of the page yet
Init ==
    /\ astype_str_na \in AstypeBuilds
    /\ mars_df = EmptyFrame
    /\ exotics_df = EmptyFrame
    /\ recon_results = NoResult
    /\ recon_swapped = NoResult
    /\ recon_again = NoResult
    /\ manual_vanilla_trades = <<>>
    /\ manual_trades = <<>>
    /\ trade_history = <<>>
    /\ live_file \in StartLiveFiles
    /\ history_file = NoFile
    /\ pc = "start"
    /\ StoreIdle
    /\ unwind_vanilla_trade = {}
    /\ unwind_exotic_trade = {}
    /\ edit_vanilla_trade = {}
    /\ edit_exotic_trade = {}
    /\ data_loaded = FALSE
    /\ disk = "ok"
    /\ save_outcome = "none"
    /\ NoSessions
    /\ MarketIdle
    /\ NormIdle

Next ==
    \/ AddVanilla \/ AddExotic
    \/ ExpireVanilla \/ ExpireExotic
    \/ DeleteVanilla \/ DeleteExotic
    \/ PressUnwindVanilla \/ PressUnwindExotic
    \/ SubmitUnwindVanilla \/ CancelUnwindVanilla
    \/ PressEditVanilla \/ PressEditExotic
    \/ SaveEditVanilla \/ CancelEditVanilla
    \/ SaveNow
    \/ Render

Spec == Init /\ [][Next]_vars

(***************************************************************************)
(* SpecFault: the same session on a data directory where the writes of one *)
(* of the two files fail.                                                  *)
(***************************************************************************)
InitFault ==
    /\ astype_str_na = "text"
    /\ mars_df = EmptyFrame
    /\ exotics_df = EmptyFrame
    /\ recon_results = NoResult
    /\ recon_swapped = NoResult
    /\ recon_again = NoResult
    /\ manual_vanilla_trades = <<>>
    /\ manual_trades = <<>>
    /\ trade_history = <<>>
    /\ live_file \in {NoFile, ForeignLiveFile}
    /\ history_file = NoFile
    /\ pc = "start"
    /\ StoreIdle
    /\ unwind_vanilla_trade = {}
    /\ unwind_exotic_trade = {}
    /\ edit_vanilla_trade = {}
    /\ edit_exotic_trade = {}
    /\ data_loaded = FALSE
    /\ disk \in DiskFaults
    /\ save_outcome = "none"
    /\ NoSessions
    /\ MarketIdle
    /\ NormIdle

SpecFault == InitFault /\ [][Next]_vars

(***************************************************************************)
(* SpecTwo: two sessions on the same data directory.  Streamlit runs each  *)
(* session's script in a thread of its own, so the two writes of an        *)
(* auto_save_data() of one session may have writes of the other between    *)
(* them.  A session's handler changes its collections (pc "save_live"),    *)
(* then writes the live file (pc "save_history"), then the history file    *)
(* (pc "idle").                                                            *)
(***************************************************************************)
\* DataFrame.to_csv(path): the file is opened for writing and replaced whole
AppendToFile(old, new) ==
    IF old.exists
    THEN [exists |-> TRUE, columns |-> old.columns \cup new.columns,
          rows |-> old.rows \o new.rows]
    ELSE new
Overwrite(old, new) == new

\* the first run of session s (src/app.py:819-834)
StartSession(s) ==
    /\ ~sessions[s].loaded
    /\ sessions' = [sessions EXCEPT
                      ![s].vanilla = load_live_trades(live_file).vanilla,
                      ![s].exotic = load_live_trades(live_file).exotic,
                      ![s].history = load_trade_history(history_file).history,
                      ![s].loaded = TRUE]
    /\ UNCHANGED <<astype_str_na, reconVars, sessionVars, fileVars, pc, normVars, storeVars,
                   formVars, data_loaded, saveVars, writers, marketVars>>

\* "Add Vanilla Trade" submitted in session s (src/app.py:754-799)
AddVanillaIn(s) ==
    /\ sessions[s].loaded /\ sessions[s].pc = "idle"
    /\ Len(sessions[s].vanilla) + Len(sessions[s].exotic) < MaxSharedTrades
    /\ \E id \in SessionIds :
          sessions' = [sessions EXCEPT
                         ![s].vanilla = Append(@, NewVanillaTrade(id)),
                         ![s].pc = "save_live"]
    /\ UNCHANGED <<astype_str_na, reconVars, sessionVars, fileVars, pc, normVars, storeVars,
                   formVars, data_loaded, saveVars, writers, marketVars>>

\* "Add Exotic Trade" submitted in session s (src/app.py:890-939)
AddExoticIn(s) ==
    /\ sessions[s].loaded /\ sessions[s].pc = "idle"
    /\ Len(sessions[s].vanilla) + Len(sessions[s].exotic) < MaxSharedTrades
    /\ \E id \in SessionIds :
          sessions' = [sessions EXCEPT
                         ![s].exotic = Append(@, NewExoticTrade(id)),
                         ![s].pc = "save_live"]
    /\ UNCHANGED <<astype_str_na, reconVars, sessionVars, fileVars, pc, normVars, storeVars,
                   formVars, data_loaded, saveVars, writers, marketVars>>

\* "Expire" pressed on vanilla trade i of session s (src/app.py:1106-1119)
ExpireVanillaIn(s) ==
    /\ sessions[s].loaded /\ sessions[s].pc = "idle"
    /\ Len(sessions[s].history) < MaxSharedHistory
    /\ \E i \in DOMAIN sessions[s].vanilla :
          sessions' = [sessions EXCEPT
                         ![s].history = Append(@, ExpiredCopy(sessions[s].vanilla[i])),
                         ![s].vanilla = RemoveAt(@, i),
                         ![s].pc = "save_live"]
    /\ UNCHANGED <<astype_str_na, reconVars, sessionVars, fileVars, pc, normVars, storeVars,
                   formVars, data_loaded, saveVars, writers, marketVars>>

\* the first write of auto_save_data() in session s (src/app.py:474)
WriteLive(s) ==
    /\ sessions[s].pc = "save_live"
    /\ live_file' = Overwrite(live_file,
                              save_live_trades(sessions[s].vanilla, sessions[s].exotic))
    /\ writers' = [writers EXCEPT !.live = s]
    /\ sessions' = [sessions EXCEPT ![s].pc = "save_history"]
    /\ UNCHANGED <<astype_str_na, reconVars, sessionVars, history_file, pc, normVars,
                   storeVars, formVars, data_loaded, saveVars, marketVars>>

\* the second write of auto_save_data() in session s (src/app.py:475); the
\* re-run that follows loads nothing (line 820)
WriteHistory(s) ==
    /\ sessions[s].pc = "save_history"
    /\ history_file' = Overwrite(history_file, save_trade_history(sessions[s].history))
    /\ writers' = [writers EXCEPT !.history = s]
    /\ sessions' = [sessions EXCEPT ![s].pc = "idle"]
    /\ UNCHANGED <<astype_str_na, reconVars, sessionVars, live_file, pc, normVars,
                   storeVars, formVars, data_loaded, saveVars, marketVars>>

InitTwo ==
    /\ astype_str_na = "text"
    /\ mars_df = EmptyFrame
    /\ exotics_df = EmptyFrame
    /\ recon_results = NoResult
    /\ recon_swapped = NoResult
    /\ recon_again = NoResult
    /\ manual_vanilla_trades = <<>>
    /\ manual_trades = <<>>
    /\ trade_history = <<>>
    /\ live_file \in {NoFile, ForeignLiveFile}
    /\ history_file = NoFile
    /\ pc = "idle"
    /\ StoreIdle
    /\ unwind_vanilla_trade = {}
    /\ unwind_exotic_trade = {}
    /\ edit_vanilla_trade = {}
    /\ edit_exotic_trade = {}
    /\ data_loaded = FALSE
    /\ disk = "ok"
    /\ save_outcome = "none"
    /\ NoSessions
    /\ MarketIdle
    /\ NormIdle

NextTwo ==
    \E s \in SessionNames :
       \/ StartSession(s)
       \/ AddVanillaIn(s) \/ AddExoticIn(s) \/ ExpireVanillaIn(s)
       \/ WriteLive(s) \/ WriteHistory(s)

SpecTwo == InitTwo /\ [][NextTwo]_vars

(***************************************************************************)
(* SpecMarket: the market-data boundary.  get_hist_data and                *)
(* get_current_price of the two client modules are applied to what the     *)
(* vendor library can do (not installed, raise, return a table), and       *)
(* get_bloomberg_history runs its event loop on the events the session     *)
(* delivers, one call of nextEvent and one pass of the loop body at a time.*)
(***************************************************************************)
\* how a call ended
Returned(v) == [raised |-> FALSE, value |-> v]
Raised == [raised |-> TRUE, value |-> "Exception"]

\* the dates of the rows the vendor returns
TradingDays == <<"2025-12-19", "2025-12-22", "2025-12-23", "2025-12-24">>

\* a table as xbbg returns it: an index, and columns in an order
VendorTable(index_name, order, n) ==
    [columns |-> {order[j] : j \in DOMAIN order},
     order |-> order,
     index_name |-> index_name,
     index |-> [i \in 1..n |-> DateVal(TradingDays[i])],
     rows |-> [i \in 1..n |->
                 [c \in {order[j] : j \in DOMAIN order} |->
                     IF c = "date" THEN DateVal(TradingDays[i]) ELSE FloatVal(600)]]]

VendorTables ==
    {VendorTable(index_name, order, n) :
        index_name \in {"", "date"},
        order \in {<<>>, <<"PX_LAST">>, <<"date", "PX_LAST">>},
        n \in 0..MaxPrices}

\* what blp.bdh(...) does
BdhOutcomes ==
    {[raises |-> TRUE, df |-> EmptyFrame]} \cup {[raises |-> FALSE, df |-> t] : t \in VendorTables}

\* what blp.bdp(tickers=ticker, flds=['PX_LAST']) does: it raises, or it
\* returns a table of no row or of one row with one cell
PriceCells == {FloatVal(600), IntVal(600), StrVal("600"), StrVal("tbd"), NaN, NoneVal}
BdpOutcomes ==
    {[raises |-> TRUE, df |-> EmptyFrame], [raises |-> FALSE, df |-> EmptyFrame]}
    \cup {[raises |-> FALSE,
           df |-> [columns |-> {"PX_LAST"}, order |-> <<"PX_LAST">>, index_name |-> "",
                   index |-> <<StrVal("SPY US Equity")>>,
                   rows |-> <<[c \in {"PX_LAST"} |-> cell]>>]] : cell \in PriceCells}

\* the name DataFrame.reset_index() gives the column made of the index
IndexColumn(df) ==
    IF df.index_name # "" THEN df.index_name
    ELSE IF "index" \in df.columns THEN "level_0" ELSE "index"

\* DataFrame.reset_index(): ValueError "cannot insert ..., already exists"
reset_index_raises(df) == IndexColumn(df) \in df.columns

\* DataFrame.reset_index()
reset_index(df) ==
    [columns |-> df.columns \cup {IndexColumn(df)},
     order |-> <<IndexColumn(df)>> \o df.order,
     index_name |-> "",
     index |-> [i \in DOMAIN df.rows |-> IntVal(i - 1)],
     rows |-> [i \in DOMAIN df.rows |-> Put(df.rows[i], IndexColumn(df), df.index[i])]]

\* df.rename(columns={old: new})
rename(df, old, new) ==
    IF old \notin df.columns THEN df
    ELSE [df EXCEPT
            !.columns = (df.columns \ {old}) \cup {new},
            !.order = [j \in DOMAIN df.order |-> IF df.order[j] = old THEN new ELSE df.order[j]],
            !.rows = [i \in DOMAIN df.rows |->
                        [c \in (df.columns \ {old}) \cup {new} |->
                            IF c = new THEN df.rows[i][old] ELSE df.rows[i][c]]]]

\* float(x)
float(v) ==
    CASE v.k \in {"int", "float"} -> Returned(FloatVal(v.n))
      [] v.k = "nan" -> Returned(NaN)
      [] v.k = "str" ->
            LET t == str_strip(Chars(v.s))
            IN IF t # <<>> /\ \A i \in DOMAIN t : t[i] \in DigitChars
               THEN Returned(FloatVal(NatOf(t))) ELSE Raised
      [] OTHER -> Raised

\* the except clause of get_hist_data
get_hist_data_reraises == Raised
get_hist_data_except == Returned(EmptyFrame)

\* get_hist_data of utils/bloomberg_client.py; blp is never None once the
\* module is imported
get_hist_data(available, bdh) ==
    IF ~available THEN Returned(EmptyFrame)
    ELSE LET body ==
                IF bdh.raises THEN Raised
                ELSE IF ~empty(bdh.df)
                     THEN IF reset_index_raises(bdh.df) THEN Raised
                          ELSE LET df == rename(reset_index(bdh.df), "date", "date")
                               IN IF Len(df.order) > 1
                                  THEN Returned(rename(df, df.order[Len(df.order)], "price"))
                                  ELSE Returned(df)
                     ELSE Returned(bdh.df)
         IN IF body.raised THEN get_hist_data_except ELSE body

\* the except clause of get_current_price
get_current_price_except == Returned(NoneVal)

\* get_current_price of utils/bloomberg_client.py
get_current_price(available, bdp) ==
    IF ~available THEN Returned(NoneVal)
    ELSE LET body ==
                IF bdp.raises THEN Raised
                ELSE IF ~empty(bdp.df)
                     THEN float(bdp.df.rows[1][bdp.df.order[1]])
                     ELSE Returned(NoneVal)
         IN IF body.raised THEN get_current_price_except ELSE body

\* get_hist_data of utils/bloomberg_client_simple.py: the vendor is not asked
\* (its try block logs and returns)
get_hist_data_simple(available) ==
    IF ~available THEN Returned(EmptyFrame) ELSE Returned(EmptyFrame)

\* get_current_price of utils/bloomberg_client_simple.py
get_current_price_simple(available) ==
    IF ~available THEN Returned(NoneVal) ELSE Returned(NoneVal)

\* the vendor was not asked
\* (the calls below are made on the one thread of the session, so none starts
\* while get_bloomberg_history is in its loop)
NotAsked == [raises |-> FALSE, df |-> EmptyFrame]

\* a call of get_hist_data of utils/bloomberg_client.py; its
\* BLOOMBERG_AVAILABLE needs xbbg as well as blpapi
GetHistData ==
    /\ history_request.pc \in {"idle", "returned"}
    /\ \E xbbg \in BOOLEAN : \E bdh \in BdhOutcomes :
          fetched' = [fn |-> "get_hist_data", client |-> "bloomberg_client",
                      available |-> BLOOMBERG_AVAILABLE /\ xbbg, vendor |-> bdh,
                      result |-> get_hist_data(BLOOMBERG_AVAILABLE /\ xbbg, bdh)]
    /\ UNCHANGED <<astype_str_na, reconVars, sessionVars, fileVars, pc, normVars, storeVars,
                   formVars, data_loaded, saveVars, twoVars, BLOOMBERG_AVAILABLE,
                   history_request>>

\* a call of get_current_price of utils/bloomberg_client.py
GetCurrentPrice ==
    /\ history_request.pc \in {"idle", "returned"}
    /\ \E xbbg \in BOOLEAN : \E bdp \in BdpOutcomes :
          fetched' = [fn |-> "get_current_price", client |-> "bloomberg_client",
                      available |-> BLOOMBERG_AVAILABLE /\ xbbg, vendor |-> bdp,
                      result |-> get_current_price(BLOOMBERG_AVAILABLE /\ xbbg, bdp)]
    /\ UNCHANGED <<astype_str_na, reconVars, sessionVars, fileVars, pc, normVars, storeVars,
                   formVars, data_loaded, saveVars, twoVars, BLOOMBERG_AVAILABLE,
                   history_request>>

\* a call of get_hist_data of utils/bloomberg_client_simple.py
GetHistDataSimple ==
    /\ history_request.pc \in {"idle", "returned"}
    /\ fetched' = [fn |-> "get_hist_data", client |-> "bloomberg_client_simple",
                   available |-> BLOOMBERG_AVAILABLE, vendor |-> NotAsked,
                   result |-> get_hist_data_simple(BLOOMBERG_AVAILABLE)]
    /\ UNCHANGED <<astype_str_na, reconVars, sessionVars, fileVars, pc, normVars, storeVars,
                   formVars, data_loaded, saveVars, twoVars, BLOOMBERG_AVAILABLE,
                   history_request>>

\* a call of get_current_price of utils/bloomberg_client_simple.py
GetCurrentPriceSimple ==
    /\ history_request.pc \in {"idle", "returned"}
    /\ fetched' = [fn |-> "get_current_price", client |-> "bloomberg_client_simple",
                   available |-> BLOOMBERG_AVAILABLE, vendor |-> NotAsked,
                   result |-> get_current_price_simple(BLOOMBERG_AVAILABLE)]
    /\ UNCHANGED <<astype_str_na, reconVars, sessionVars, fileVars, pc, normVars, storeVars,
                   formVars, data_loaded, saveVars, twoVars, BLOOMBERG_AVAILABLE,
                   history_request>>

\* the records of one HistoricalDataResponse message
HistoryRecords ==
    {[date |-> TradingDays[1], has_PX_LAST |-> b, PX_LAST |-> 600] : b \in BOOLEAN}

\* the messages of an event: a HistoricalDataResponse with its securityData,
\* one with a responseError in its place, and the status messages
DataMessages ==
    {[messageType |-> "HistoricalDataResponse", securityData |-> TRUE,
      security |-> "SPY US Equity", fieldData |-> fd] : fd \in SeqsUpTo(HistoryRecords, MaxPrices)}
ErrorMessage ==
    [messageType |-> "HistoricalDataResponse", securityData |-> FALSE,
     security |-> "", fieldData |-> <<>>]
StatusMessage(type) ==
    [messageType |-> type, securityData |-> FALSE, security |-> "", fieldData |-> <<>>]

\* what session.nextEvent(5000) returns: an event of the request, a status
\* event, or a TIMEOUT event when nothing came in 5 seconds
ResponseEvents ==
    {[eventType |-> t, messages |-> ms] :
        t \in {"RESPONSE", "PARTIAL_RESPONSE"},
        ms \in SeqsUpTo(DataMessages \cup {ErrorMessage}, MaxMessages)}
StatusEvents ==
    {[eventType |-> "REQUEST_STATUS", messages |-> <<StatusMessage("RequestFailure")>>],
     [eventType |-> "SESSION_STATUS", messages |-> <<StatusMessage("SessionTerminated")>>]}
TimeoutEvent == [eventType |-> "TIMEOUT", messages |-> <<>>]
Events == ResponseEvents \cup StatusEvents \cup {TimeoutEvent}

\* the dicts lines 339-348 append for one message
RECURSIVE PriceRecords(_, _)
PriceRecords(security, fieldData) ==
    IF fieldData = <<>> THEN <<>>
    ELSE LET record == Head(fieldData)
             rest == PriceRecords(security, Tail(fieldData))
         IN IF record.has_PX_LAST
            THEN <<[c \in {"date", "ticker", "price"} |->
                      CASE c = "date" -> DateVal(record.date)
                        [] c = "ticker" -> StrVal(security)
                        [] c = "price" -> FloatVal(record.PX_LAST)]>> \o rest
            ELSE rest

\* for msg in event (lines 333-348): msg.getElement("securityData") raises
\* when the message has none
RECURSIVE ReadMessages(_, _)
ReadMessages(messages, data) ==
    IF messages = <<>> THEN Returned(data)
    ELSE LET msg == Head(messages)
         IN IF msg.messageType = "HistoricalDataResponse"
            THEN IF ~msg.securityData THEN Raised
                 ELSE ReadMessages(Tail(messages),
                                   data \o PriceRecords(msg.security, msg.fieldData))
            ELSE ReadMessages(Tail(messages), data)

\* the number of dicts the messages of an event add to data
RECURSIVE PricesIn(_)
PricesIn(messages) ==
    IF messages = <<>> THEN 0
    ELSE Len(PriceRecords(Head(messages).security, Head(messages).fieldData))
         + PricesIn(Tail(messages))

\* the securities of the request (lines 310-313)
RECURSIVE Securities(_)
Securities(tickers) ==
    IF tickers = <<>> THEN <<>>
    ELSE IF Head(tickers) # "" /\ str_strip(Chars(Head(tickers))) # <<>>
         THEN <<Join(str_strip(Chars(Head(tickers))))>> \o Securities(Tail(tickers))
         ELSE Securities(Tail(tickers))

TickerLists == {<<>>, <<"SPY US Equity">>, <<"SPY US Equity", "">>}

\* get_bloomberg_session gave None, or a session on which the request is
\* built and sent, or one on which building or sending it raises
SessionOutcomes == {"none", "started", "raises"}

\* get_bloomberg_history returned value
HistoryReturns(request, value) ==
    [request EXCEPT !.pc = "returned", !.result = Returned(value)]

\* get_bloomberg_history(tickers) up to session.sendRequest (lines 297-330)
CallHistory ==
    /\ history_request.pc \in {"idle", "returned"}
    /\ \E tickers \in TickerLists : \E session \in SessionOutcomes :
          history_request' =
             LET request == [pc |-> "nextEvent", securities |-> <<>>,
                             outstanding |-> FALSE, data |-> <<>>,
                             event |-> NoEvent, result |-> NoReturn]
             IN IF tickers = <<>> \/ ~BLOOMBERG_AVAILABLE THEN HistoryReturns(request, EmptyFrame)
                ELSE IF session = "none" THEN HistoryReturns(request, EmptyFrame)
                ELSE IF session = "raises" THEN HistoryReturns(request, EmptyFrame)
                ELSE [request EXCEPT !.securities = Securities(tickers),
                                      !.outstanding = TRUE]
    /\ UNCHANGED <<astype_str_na, reconVars, sessionVars, fileVars, pc, normVars, storeVars,
                   formVars, data_loaded, saveVars, twoVars, BLOOMBERG_AVAILABLE, fetched>>

\* event = session.nextEvent(5000) (line 332)
\* what the session can deliver next: a request that failed and a session
\* that terminated send nothing more for the request, only TIMEOUT events
\* follow; the partial responses of a request are finitely many (here each
\* brings a price or an error, and the prices are at most MaxPrices)
Deliverable(request, event) ==
    /\ event \in ResponseEvents \cup StatusEvents => request.outstanding
    /\ Len(request.data) + PricesIn(event.messages) <= MaxPrices
    /\ event.eventType = "PARTIAL_RESPONSE" =>
          \/ PricesIn(event.messages) > 0
          \/ \E i \in DOMAIN event.messages : event.messages[i] = ErrorMessage

NextEvent ==
    /\ history_request.pc = "nextEvent"
    /\ \E event \in Events :
          /\ Deliverable(history_request, event)
          /\ history_request' = [history_request EXCEPT
                                    !.event = event,
                                    !.outstanding = @ /\ event \notin StatusEvents,
                                    !.pc = "loop_body"]
    /\ UNCHANGED <<astype_str_na, reconVars, sessionVars, fileVars, pc, normVars, storeVars,
                   formVars, data_loaded, saveVars, twoVars, BLOOMBERG_AVAILABLE, fetched>>

\* session.nextEvent raises (the session was stopped): lines 355-357
NextEventRaises ==
    /\ history_request.pc = "nextEvent"
    /\ history_request' = HistoryReturns(history_request, EmptyFrame)
    /\ UNCHANGED <<astype_str_na, reconVars, sessionVars, fileVars, pc, normVars, storeVars,
                   formVars, data_loaded, saveVars, twoVars, BLOOMBERG_AVAILABLE, fetched>>

\* if event.eventType() == blpapi.Event.RESPONSE (line 350)
IsFinal(event) == event.eventType = "RESPONSE"

\* the body of the loop on the event held (lines 333-353)
LoopBody ==
    /\ history_request.pc = "loop_body"
    /\ LET read == ReadMessages(history_request.event.messages, history_request.data)
       IN history_request' =
             IF read.raised THEN HistoryReturns(history_request, EmptyFrame)
             ELSE IF IsFinal(history_request.event)
                  THEN HistoryReturns([history_request EXCEPT !.data = read.value],
                                      DataFrame(read.value))
                  ELSE [history_request EXCEPT !.data = read.value, !.pc = "nextEvent"]
    /\ UNCHANGED <<astype_str_na, reconVars, sessionVars, fileVars, pc, normVars, storeVars,
                   formVars, data_loaded, saveVars, twoVars, BLOOMBERG_AVAILABLE, fetched>>

InitMarket ==
    /\ astype_str_na = "text"
    /\ mars_df = EmptyFrame
    /\ exotics_df = EmptyFrame
    /\ recon_results = NoResult
    /\ recon_swapped = NoResult
    /\ recon_again = NoResult
    /\ manual_vanilla_trades = <<>>
    /\ manual_trades = <<>>
    /\ trade_history = <<>>
    /\ live_file = NoFile
    /\ history_file = NoFile
    /\ pc = "idle"
    /\ StoreIdle
    /\ unwind_vanilla_trade = {}
    /\ unwind_exotic_trade = {}
    /\ edit_vanilla_trade = {}
    /\ edit_exotic_trade = {}
    /\ data_loaded = FALSE
    /\ disk = "ok"
    /\ save_outcome = "none"
    /\ NoSessions
    /\ NormIdle
    /\ BLOOMBERG_AVAILABLE \in BOOLEAN
    /\ fetched = NoFetch
    /\ history_request = NoRequest

NextMarket ==
    \/ GetHistData \/ GetCurrentPrice \/ GetHistDataSimple \/ GetCurrentPriceSimple
    \/ CallHistory \/ NextEvent \/ NextEventRaises \/ LoopBody

SpecMarket == InitMarket /\ [][NextMarket]_vars

\* each call of nextEvent(5000) returns, with an event or with TIMEOUT after 5
\* seconds, and each pass of the loop body ends
SpecMarketLive ==
    SpecMarket /\ WF_vars(NextEvent \/ NextEventRaises) /\ WF_vars(LoopBody)

(***************************************************************************)
(* Claims about perform_recon, checked under SpecRecon.                    *)
(***************************************************************************)
Range(seq) == {seq[i] : i \in DOMAIN seq}

\* the distinct, non-missing, string-cast trade_id values of a sequence of rows
IdsOfRows(rows) ==
    {PyStr(r.trade_id) : r \in {x \in Range(rows) : "trade_id" \in DOMAIN x /\ notna(x.trade_id)}}

A_ids == IdsOfRows(mars_df.rows)
B_ids == IdsOfRows(exotics_df.rows)

\* C1: the ids of the rows returned in matched / only_mars / only_manual are
\* A_ids \cap B_ids, A_ids \ B_ids and B_ids \ A_ids; the three id sets are
\* pairwise disjoint and their union is A_ids \cup B_ids.
C1_ReconPartitionsIds ==
    recon_results.called =>
        LET m == IdsOfRows(recon_results.matched)
            a == IdsOfRows(recon_results.only_mars)
            b == IdsOfRows(recon_results.only_manual)
        IN /\ m = A_ids \cap B_ids
           /\ a = A_ids \ B_ids
           /\ b = B_ids \ A_ids
           /\ m \cap a = {} /\ m \cap b = {} /\ a \cap b = {}
           /\ m \cup a \cup b = A_ids \cup B_ids

C1_Witness ==
    /\ recon_results.called
    /\ recon_results.matched # <<>>
    /\ recon_results.only_mars # <<>>
    /\ recon_results.only_manual # <<>>

\* C2: a row whose trade_id is missing appears in none of the three outputs.
C2_NoMissingIdInOutputs ==
    recon_results.called =>
        \A r \in Range(recon_results.matched) \cup Range(recon_results.only_mars)
                 \cup Range(recon_results.only_manual) : notna(r.trade_id)

\* C3: a trade whose id is a number on one side and a trade whose id is the
\* text of the same printed form on the other side are both returned in
\* matched, and in neither only_mars nor only_manual.
NumberAndItsText(x, y) ==
    /\ "trade_id" \in DOMAIN x /\ "trade_id" \in DOMAIN y
    /\ x.trade_id.k = "int"
    /\ y.trade_id.k = "str"
    /\ y.trade_id.s = IntStr(x.trade_id.n)

C3_NumberMatchesItsText ==
    recon_results.called =>
        \A x \in Range(mars_df.rows), y \in Range(exotics_df.rows) :
            NumberAndItsText(x, y) \/ NumberAndItsText(y, x) =>
                /\ x \in Range(recon_results.matched)
                /\ y \in Range(recon_results.matched)
                /\ x \notin Range(recon_results.only_mars)
                /\ y \notin Range(recon_results.only_manual)

C3_Witness ==
    /\ recon_results.called
    /\ \E x \in Range(mars_df.rows), y \in Range(exotics_df.rows) :
          /\ NumberAndItsText(x, y)
          /\ x \in Range(recon_results.matched)
          /\ y \in Range(recon_results.matched)

\* C4: matched is every row of A whose trade_id is in the matched id set,
\* followed by every row of B whose trade_id is in it: an id that occurs k
\* times in A and m times in B contributes exactly k+m rows, unaltered, and
\* nothing else is in matched.
HasIdIn(r, ids) == "trade_id" \in DOMAIN r /\ notna(r.trade_id) /\ PyStr(r.trade_id) \in ids

C4_MatchedIsConcatenation ==
    recon_results.called =>
        recon_results.matched =
            SelectSeq(mars_df.rows, LAMBDA r : HasIdIn(r, A_ids \cap B_ids))
            \o SelectSeq(exotics_df.rows, LAMBDA r : HasIdIn(r, A_ids \cap B_ids))

\* C5: perform_recon(A,B) and perform_recon(B,A) return the same matched
\* ids, only_mars of the one is only_manual of the other, and a repeated
\* call returns the same three id sets.
C5_ReconSymmetricRepeatable ==
    /\ recon_swapped.called =>
          /\ IdsOfRows(recon_results.matched) = IdsOfRows(recon_swapped.matched)
          /\ IdsOfRows(recon_results.only_mars) = IdsOfRows(recon_swapped.only_manual)
          /\ IdsOfRows(recon_results.only_manual) = IdsOfRows(recon_swapped.only_mars)
    /\ recon_again.called =>
          /\ IdsOfRows(recon_results.matched) = IdsOfRows(recon_again.matched)
          /\ IdsOfRows(recon_results.only_mars) = IdsOfRows(recon_again.only_mars)
          /\ IdsOfRows(recon_results.only_manual) = IdsOfRows(recon_again.only_manual)

C5_Witness ==
    /\ recon_swapped.called
    /\ recon_again.called
    /\ recon_results.matched # <<>>
    /\ recon_results.only_mars # <<>>
    /\ recon_swapped.only_mars # <<>>

\* C6: perform_recon raises on no input; a side that is empty or has no
\* trade_id column contributes no id, so every id of the other side is
\* returned as 'only' of that other side; two empty sides give three empty
\* outputs.
NoIds(df) == df.rows = <<>> \/ "trade_id" \notin df.columns

C6_DegenerateInputs ==
    recon_results.called =>
        /\ ~recon_results.fault
        /\ NoIds(mars_df) =>
              /\ recon_results.matched = <<>>
              /\ recon_results.only_mars = <<>>
              /\ IdsOfRows(recon_results.only_manual) = B_ids
        /\ NoIds(exotics_df) =>
              /\ recon_results.matched = <<>>
              /\ recon_results.only_manual = <<>>
              /\ IdsOfRows(recon_results.only_mars) = A_ids
        /\ mars_df.rows = <<>> /\ exotics_df.rows = <<>> =>
              /\ recon_results.matched = <<>>
              /\ recon_results.only_mars = <<>>
              /\ recon_results.only_manual = <<>>

C6_Witness ==
    /\ recon_results.called
    /\ mars_df.rows # <<>>
    /\ "trade_id" \notin mars_df.columns
    /\ Len(recon_results.only_manual) = 2

(***************************************************************************)
(* Claims about the reconciliation section of a session, checked under     *)
(* Spec.                                                                   *)
(***************************************************************************)
\* C7: running reconciliation changes neither the two frames handed to
\* perform_recon nor the session's live and history collections: every page
\* run that ends rendered leaves the collections as they were (the first run
\* of a session, which loads them, apart) and the two frames equal to the
\* collections they were built from.
C7_ReconChangesNothing ==
    [][pc' = "idle" =>
          /\ data_loaded => UNCHANGED <<manual_vanilla_trades, manual_trades, trade_history>>
          /\ mars_df' = DataFrame(manual_vanilla_trades')
          /\ exotics_df' = DataFrame(manual_trades')]_vars

C7_Witness ==
    /\ pc = "idle"
    /\ recon_results.called
    /\ recon_results.matched # <<>>
    /\ Len(manual_vanilla_trades) = 2
    /\ trade_history # <<>>

(***************************************************************************)
(* Claims about the normalizers, checked under SpecNorm.                   *)
(***************************************************************************)
\* the alias table of the normalizer that ran
TableOf(sch) == IF sch = "mars" THEN mars_columns ELSE exotics_columns

\* the canonical columns of a schema: the fields of its alias table, source,
\* and (exotics) the fixed payoff_type
CanonicalColumns(sch) ==
    {TableOf(sch)[k].name : k \in DOMAIN TableOf(sch)}
    \cup (IF sch = "mars" THEN {"source"} ELSE {"source", "payoff_type"})

\* the input columns whose header, lower-cased and trimmed, is the alias
InputColumnsNamed(alias) ==
    {j \in DOMAIN upload.headers : NormHeader(upload.headers[j]) = alias}

\* alias k of the field is present in the input and no earlier alias is
FirstPresentAlias(field, k) ==
    /\ InputColumnsNamed(field.aliases[k]) # {}
    /\ \A e \in 1..(k - 1) : InputColumnsNamed(field.aliases[e]) = {}

NoAliasPresent(field) ==
    \A k \in DOMAIN field.aliases : InputColumnsNamed(field.aliases[k]) = {}

\* C8 as stated (on the loads that do not fail): for every canonical field
\* with an alias among the input headers, the output column equals, row for
\* row, the input column named by the first alias present.
C8_ColumnEqualsFirstAlias ==
    schema # "none" /\ ~st_error =>
        \A f \in Range(TableOf(schema)) : \A k \in DOMAIN f.aliases :
            FirstPresentAlias(f, k) =>
                \A j \in InputColumnsNamed(f.aliases[k]) :
                    /\ f.name \in standardized.columns
                    /\ Len(standardized.rows) = Len(upload.rows)
                    /\ \A i \in DOMAIN upload.rows :
                          standardized.rows[i][f.name] = upload.rows[i][j]

\* what the output cell of a field may be, given the input cell it is taken
\* from: the cell itself for a text field; for a date-like field the date
\* the text spells, or missing; for a numeric-like field the same number,
\* or missing when the cell is no number; for the vanilla payoff_type the
\* cell itself, or Vanilla / Unknown when the cell is missing
DerivedFrom(sch, name, in, out) ==
    IF name \in date_cols
    THEN \/ out = NaN
         \/ out.k = "date" /\ in.k = "str" /\ out.s = in.s
    ELSE IF name \in (IF sch = "mars" THEN mars_numeric_cols ELSE exotics_numeric_cols)
    THEN /\ in.k \in {"int", "float"} => out.k \in {"int", "float"} /\ out.n = in.n
         /\ in.k = "nan" => out = NaN
         /\ in.k = "str" => out = NaN \/ out.k \in {"int", "float"}
    ELSE IF sch = "mars" /\ name = "payoff_type"
    THEN IF notna(in) THEN out = in ELSE out \in {StrVal("Vanilla"), StrVal("Unknown")}
    ELSE out = in

\* C8 (amended): when the normalizer does not fail, for every canonical
\* field with an alias among the input headers (lower-cased, trimmed) the
\* output column is taken, row for row, from the input column named by the
\* first alias present, never from that of a later alias: equal to it for a
\* text field, coerced to a date or a number (missing when unparseable) for
\* a date-like or numeric-like field, and with missing cells filled with
\* Vanilla / Unknown for the vanilla payoff_type.
C8_ColumnDerivedFromFirstAlias ==
    schema # "none" /\ ~st_error =>
        \A f \in Range(TableOf(schema)) : \A k \in DOMAIN f.aliases :
            FirstPresentAlias(f, k) =>
                \A j \in InputColumnsNamed(f.aliases[k]) :
                    /\ f.name \in standardized.columns
                    /\ Len(standardized.rows) = Len(upload.rows)
                    /\ \A i \in DOMAIN upload.rows :
                          DerivedFrom(schema, f.name, upload.rows[i][j],
                                      standardized.rows[i][f.name])

\* two aliases of one field are present, and their columns differ in a row
C8_Witness ==
    /\ schema = "mars"
    /\ ~st_error
    /\ \E f \in Range(mars_columns) : \E k, l \in DOMAIN f.aliases :
          /\ k < l
          /\ FirstPresentAlias(f, k)
          /\ \E j \in InputColumnsNamed(f.aliases[k]), m \in InputColumnsNamed(f.aliases[l]) :
                \E i \in DOMAIN upload.rows :
                    /\ upload.rows[i][j] # upload.rows[i][m]
                    /\ standardized.rows[i][f.name] = upload.rows[i][j]

\* C9 (for the loads that do not fail, and leaving aside the vanilla
\* payoff_type, which the heuristic fills): the output has as many rows as
\* the input, and every canonical field with no alias among the input
\* headers is missing in all of them; also when no header matches any alias.
C9_RowCountAndMissingFill ==
    schema # "none" /\ ~st_error =>
        /\ Len(standardized.rows) = Len(upload.rows)
        /\ \A f \in Range(TableOf(schema)) :
              NoAliasPresent(f) /\ ~(schema = "mars" /\ f.name = "payoff_type") =>
                  /\ f.name \in standardized.columns
                  /\ \A i \in DOMAIN standardized.rows : standardized.rows[i][f.name] = NaN

FieldNamed(sch, name) == CHOOSE f \in Range(TableOf(sch)) : f.name = name

\* the cell of input row i in the column that the first alias present for
\* the field names; missing when no alias of the field is present
InputCell(sch, name, i) ==
    LET f == FieldNamed(sch, name)
        ks == {k \in DOMAIN f.aliases : FirstPresentAlias(f, k)}
    IN IF ks = {} THEN NaN
       ELSE LET k == CHOOSE x \in ks : TRUE
                j == CHOOSE x \in InputColumnsNamed(f.aliases[k]) : TRUE
            IN upload.rows[i][j]

\* two input headers become equal after lower-casing and trimming, and that
\* text is the alias chosen for a field of the schema
DuplicateAliasHeader(sch) ==
    \E f \in Range(TableOf(sch)) : \E k \in DOMAIN f.aliases :
        FirstPresentAlias(f, k) /\ Cardinality(InputColumnsNamed(f.aliases[k])) > 1

\* the one-row input whose only header is "Ticker", holding "SPY US Equity"
TickerOnlyUpload ==
    [readable |-> TRUE,
     headers |-> <<<<"T", "i", "c", "k", "e", "r">>>>,
     rows |-> <<<<StrVal("SPY US Equity")>>>>]

TickerNamesSpyOrCdx(i) ==
    \E name \in {"index", "bbg_ticker"} :
        LET v == InputCell("mars", name, i)
        IN /\ notna(v)
           /\ \/ Contains(str_upper(Chars(PyStr(v))), <<"S", "P", "Y">>)
              \/ Contains(str_upper(Chars(PyStr(v))), <<"C", "D", "X">>)

ExpectedPayoff(i) ==
    LET explicit == InputCell("mars", "payoff_type", i)
    IN IF notna(explicit) THEN explicit
       ELSE IF TickerNamesSpyOrCdx(i) THEN StrVal("Vanilla") ELSE StrVal("Unknown")

\* C12: in the vanilla normalizer, for every row of a non-empty input (a
\* readable table without duplicated alias headers) the resulting
\* payoff_type is the explicitly mapped value when the row has one, otherwise
\* "Vanilla" when the row's ticker text contains SPY or CDX in any case,
\* otherwise "Unknown"; no row is left without a payoff_type.
C12_PayoffTypeRule ==
    schema = "mars" /\ upload.readable /\ ~DuplicateAliasHeader("mars") /\ upload.rows # <<>> =>
        \A i \in DOMAIN upload.rows :
            /\ i \in DOMAIN standardized.rows
            /\ standardized.rows[i].payoff_type = ExpectedPayoff(i)

\* C13: a failure while a normalizer reads or maps its input (an unreadable
\* file, two headers that become the same alias) is caught: no exception
\* reaches the caller, a message is surfaced, and what is returned with a
\* message is the empty dataset.
C13_FailuresAreCaught ==
    schema # "none" =>
        /\ ~raised
        /\ ~upload.readable \/ DuplicateAliasHeader(schema) => st_error
        /\ st_error => standardized = EmptyFrame

C13_Witness ==
    /\ schema = "exotics"
    /\ upload.readable
    /\ upload.rows # <<>>
    /\ DuplicateAliasHeader("exotics")
    /\ st_error
    /\ standardized = EmptyFrame

(***************************************************************************)
(* Claims about the CSV store, checked under SpecStore.                    *)
(***************************************************************************)
\* the live file is what save_live_trades wrote for the collections held now
LiveFileSaved == live_file = save_live_trades(manual_vanilla_trades, manual_trades)

\* the history file is what save_trade_history wrote for the history held now
HistoryFileSaved == history_file = save_trade_history(trade_history)

\* the same value: numbers by their value, dates as calendar dates, None only
\* to None
SameValue(a, b) ==
    IF a.k \in {"int", "float"} /\ b.k \in {"int", "float"} THEN a.n = b.n ELSE a = b

\* the same fields with the same values (an absent field absent in both)
SameRecord(a, b) == DOMAIN a = DOMAIN b /\ \A c \in DOMAIN a : SameValue(a[c], b[c])

SameRecords(x, y) == Len(x) = Len(y) /\ \A i \in DOMAIN x : SameRecord(x[i], y[i])

\* C14: save_live_trades(V, E) followed by load_live_trades() returns the
\* records that were saved: as many, each with the same fields and the same
\* values (an absent or None field still absent or None, dates equal as
\* calendar dates).
C14_LiveRoundTrip ==
    live_loaded.called /\ LiveFileSaved =>
        /\ SameRecords(live_loaded.vanilla,
                       [i \in DOMAIN manual_vanilla_trades |->
                           Put(manual_vanilla_trades[i], "trade_type", StrVal("Vanilla"))])
        /\ SameRecords(live_loaded.exotic,
                       [i \in DOMAIN manual_trades |->
                           Put(manual_trades[i], "trade_type", StrVal("Exotic"))])

\* a file with a header line and no row
HeaderOnly(file) == file.exists /\ file.columns # {} /\ file.rows = <<>>

\* C15: after a sequence of saves that ends with a save of zero live trades
\* the live file is a header-only file, and load_live_trades() then returns
\* two empty collections as a normal outcome, not through its error handler;
\* the same for save_trade_history([]) and load_trade_history().
C15_EmptySaveIsHeaderOnlyAndLoadsNormally ==
    /\ manual_vanilla_trades = <<>> /\ manual_trades = <<>> /\ LiveFileSaved =>
          /\ HeaderOnly(live_file)
          /\ live_loaded.called =>
                /\ live_loaded.vanilla = <<>> /\ live_loaded.exotic = <<>>
                /\ ~live_loaded.caught /\ ~live_loaded.raised
    /\ trade_history = <<>> /\ HistoryFileSaved =>
          /\ HeaderOnly(history_file)
          /\ history_loaded.called =>
                /\ history_loaded.history = <<>>
                /\ ~history_loaded.caught /\ ~history_loaded.raised

\* a file with rows that lacks the column the load selects on, or holds a
\* text that is no date under one of the date columns the load converts
Malformed(file, needed, dates) ==
    /\ file.exists
    /\ file.rows # <<>>
    /\ \/ ~(needed \subseteq file.columns)
       \/ \E i \in DOMAIN file.rows : \E c \in dates \cap file.columns :
             file.rows[i][c] = "tbd"

\* C16: load_live_trades and load_trade_history never raise; a missing file
\* gives empty collections as the normal outcome, a malformed file (a live
\* file without trade_type, a date column holding no date) gives empty
\* collections through the handler.
C16_LoadsNeverRaise ==
    /\ live_loaded.called =>
          /\ ~live_loaded.raised
          /\ ~live_file.exists =>
                /\ live_loaded.vanilla = <<>> /\ live_loaded.exotic = <<>>
                /\ ~live_loaded.caught
          /\ Malformed(live_file, {"trade_type"}, {"trade_date", "expiry"}) =>
                /\ live_loaded.vanilla = <<>> /\ live_loaded.exotic = <<>>
                /\ live_loaded.caught
    /\ history_loaded.called =>
          /\ ~history_loaded.raised
          /\ ~history_file.exists => history_loaded.history = <<>> /\ ~history_loaded.caught
          /\ Malformed(history_file, {}, {"trade_date", "expiry", "unwind_date"}) =>
                history_loaded.history = <<>> /\ history_loaded.caught

C16_Witness ==
    /\ live_loaded.called
    /\ live_file = NoTradeTypeFile
    /\ live_loaded.caught
    /\ history_loaded.called
    /\ history_file = BadDateFile
    /\ history_loaded.caught

\* the trade_id of a record as a text, a number by its whole value
IdKey(r) == IF r.trade_id.k \in {"int", "float"} THEN IntStr(r.trade_id.n)
            ELSE CsvText(r.trade_id)

\* C17: after save_live_trades(V, E) and load_live_trades(), the records of
\* V are returned in the vanilla list and those of E in the exotic list, in
\* saved order, none in both lists or in neither, whatever trade_type a
\* record carried before the save; the caller's records are as they were.
C17_DiscriminatorSplit ==
    /\ Range(manual_vanilla_trades) \subseteq StoreVanilla
    /\ Range(manual_trades) \subseteq StoreExotic
    /\ live_loaded.called /\ LiveFileSaved =>
          /\ Len(live_loaded.vanilla) = Len(manual_vanilla_trades)
          /\ Len(live_loaded.exotic) = Len(manual_trades)
          /\ \A i \in DOMAIN manual_vanilla_trades :
                /\ IdKey(live_loaded.vanilla[i]) = IdKey(manual_vanilla_trades[i])
                /\ live_loaded.vanilla[i].trade_type = StrVal("Vanilla")
                /\ live_loaded.vanilla[i].payoff_type = manual_vanilla_trades[i].payoff_type
          /\ \A i \in DOMAIN manual_trades :
                /\ IdKey(live_loaded.exotic[i]) = IdKey(manual_trades[i])
                /\ live_loaded.exotic[i].trade_type = StrVal("Exotic")
                /\ live_loaded.exotic[i].payoff_type = manual_trades[i].payoff_type

C17_Witness ==
    /\ live_loaded.called
    /\ LiveFileSaved
    /\ Len(live_loaded.vanilla) = 1
    /\ Len(live_loaded.exotic) = 1
    /\ manual_vanilla_trades[1].trade_type = StrVal("Exotic")
    /\ manual_trades[1].trade_type = StrVal("Vanilla")

\* C18: backup_data, in a state reached by saves (also a save of zero
\* trades), copies each data file that exists and reports success; a file
\* that does not exist is skipped.
C18_BackupCopiesExistingFiles ==
    /\ backup.called
    /\ ~live_file.exists \/ LiveFileSaved
    /\ ~history_file.exists \/ HistoryFileSaved
    => /\ backup.ok
       /\ backup.live.exists = live_file.exists
       /\ backup.history.exists = history_file.exists
       /\ backup.live.columns = live_file.columns
       /\ Len(backup.live.rows) = Len(live_file.rows)
       /\ backup.history.columns = history_file.columns
       /\ Len(backup.history.rows) = Len(history_file.rows)

(***************************************************************************)
(* Claims about closing and deleting live records in a session, checked    *)
(* under Spec.                                                             *)
(***************************************************************************)
\* the fields a closing is said to add
ClosingFields == {"status", "unwind_date", "unwind_price", "unwind_value", "pnl_usd"}

\* new is old without its element at position i
RemovedAt(old, new, i) ==
    /\ i \in DOMAIN old
    /\ Len(new) = Len(old) - 1
    /\ \A j \in DOMAIN new : new[j] = old[IF j < i THEN j ELSE j + 1]

\* h is a copy of trade that carries the closing fields
ClosedCopy(h, trade) ==
    /\ DOMAIN trade \subseteq DOMAIN h
    /\ \A c \in DOMAIN trade : h[c] = trade[c]
    /\ ClosingFields \subseteq DOMAIN h

\* the step moves one record of live to the end of the history
MovesOneToHistory(live, live2) ==
    \E i \in DOMAIN live :
       /\ RemovedAt(live, live2, i)
       /\ Len(trade_history') = Len(trade_history) + 1
       /\ SubSeq(trade_history', 1, Len(trade_history)) = trade_history
       /\ ClosedCopy(trade_history'[Len(trade_history')], live[i])

\* C19: a closing step (Unwind or Expire, the steps that write the history)
\* removes exactly one record from its live collection and appends exactly
\* one copy of it to the history, carrying status, unwind_date,
\* unwind_price, unwind_value and pnl_usd; live plus history records keep
\* their number.
C19_ClosingMovesRecordWithAllFields ==
    [][trade_history' # trade_history =>
         /\ \/ /\ MovesOneToHistory(manual_vanilla_trades, manual_vanilla_trades')
               /\ manual_trades' = manual_trades
            \/ /\ MovesOneToHistory(manual_trades, manual_trades')
               /\ manual_vanilla_trades' = manual_vanilla_trades
         /\ Len(manual_vanilla_trades') + Len(manual_trades') + Len(trade_history')
              = Len(manual_vanilla_trades) + Len(manual_trades) + Len(trade_history)
      ]_vars

\* C20: deleting the live record at position i removes that record from
\* its own collection and nothing else: the records before i keep their
\* place, those after i move up by one, the other live collection and the
\* history are as they were.
C20_DeleteRemovesOnlyThatRecord ==
    [][/\ \A i \in 1..MaxTrades :
            DeleteVanillaAt(i) =>
               /\ RemovedAt(manual_vanilla_trades, manual_vanilla_trades', i)
               /\ manual_trades' = manual_trades
               /\ trade_history' = trade_history
       /\ \A i \in 1..MaxTrades :
            DeleteExoticAt(i) =>
               /\ RemovedAt(manual_trades, manual_trades', i)
               /\ manual_vanilla_trades' = manual_vanilla_trades
               /\ trade_history' = trade_history
      ]_vars

\* a delete has just acted on one of two vanilla records (the Unwind flag of
\* position 2 is still there, and nothing went to the history), with an
\* exotic record alongside
C20_Witness ==
    /\ pc = "rerun"
    /\ unwind_vanilla_trade = {2}
    /\ Len(manual_vanilla_trades) = 1
    /\ Len(manual_trades) = 1
    /\ trade_history = <<>>
    /\ live_file.exists /\ Len(live_file.rows) = 2

\* C21: saving the edit form opened on the vanilla record at position i
\* puts a record built from the edited values at position i of the vanilla
\* collection, leaves every other vanilla record, the exotic collection and
\* the history as they were, and closes the form of position i.
C21_EditReplacesVanillaRecord ==
    [][\A i \in 1..MaxTrades :
          SaveEditVanillaAt(i) =>
             /\ Len(manual_vanilla_trades') = Len(manual_vanilla_trades)
             /\ \A j \in DOMAIN manual_vanilla_trades :
                   j # i => manual_vanilla_trades'[j] = manual_vanilla_trades[j]
             /\ \E id \in SessionIds :
                   manual_vanilla_trades'[i]
                      = EditedTrade(manual_vanilla_trades[i], id)
             /\ manual_trades' = manual_trades
             /\ trade_history' = trade_history
             /\ i \notin edit_vanilla_trade'
      ]_vars

\* no two records of the list carry the same trade_id
UniqueIds(lst) ==
    \A i, j \in DOMAIN lst : i # j => lst[i].trade_id # lst[j].trade_id

\* C22: in every reachable state of a session trade_id is unique within the
\* vanilla live collection and within the exotic live collection.
C22_TradeIdUniquePerCollection ==
    UniqueIds(manual_vanilla_trades) /\ UniqueIds(manual_trades)

(***************************************************************************)
(* Claims about persistence during a session, checked under Spec and       *)
(* SpecFault.                                                              *)
(***************************************************************************)
\* C23: every mutating action saves before the page is re-run: once a save
\* has succeeded, in every state between two actions the live file holds
\* exactly the records of the vanilla and exotic collections, one row each
\* and in that order, and the history file those of the history.
C23_FilesHoldCollectionsAfterEachAction ==
    save_outcome = "saved" =>
       /\ LiveFileSaved
       /\ HistoryFileSaved
       /\ Len(live_file.rows) = Len(manual_vanilla_trades) + Len(manual_trades)
       /\ Len(history_file.rows) = Len(trade_history)

\* adds, a closing and a delete have been saved
C23_Witness ==
    /\ save_outcome = "saved"
    /\ pc = "rerun"
    /\ Len(manual_vanilla_trades) = 1
    /\ Len(manual_trades) = 2
    /\ Len(trade_history) = 1
    /\ Len(live_file.rows) = 3
    /\ Len(history_file.rows) = 1

\* C24: a write that fails during a mutating action is caught by
\* auto_save_data, which surfaces its warning; the collections keep the
\* mutation and the page is re-run, so the session goes on.
C24_WriteFailureIsCaught ==
    [][(data_loaded /\ disk \in DiskFaults
          /\ <<manual_vanilla_trades, manual_trades, trade_history>>'
               # <<manual_vanilla_trades, manual_trades, trade_history>>) =>
            /\ save_outcome' = "warned"
            /\ pc' = "rerun"
      ]_vars

\* after failed writes the session has gone on: two trades were added and
\* one was closed, none of which reached the live file
C24_Witness ==
    /\ disk = "live_fails"
    /\ save_outcome = "warned"
    /\ pc = "idle"
    /\ Len(manual_vanilla_trades) = 2
    /\ trade_history # <<>>
    /\ live_file = NoFile
    /\ history_file = NoFile

(***************************************************************************)
(* Claims about the forms and views of a session, checked under Spec.      *)
(***************************************************************************)
\* C28: when a step removes a record from the vanilla collection, every
\* position whose Unwind or Edit form is open afterwards had that form open
\* before and still holds the same trade: no form has passed to a trade
\* that moved up into the position.
C28_FormsStayOnTheirTrade ==
    [][Len(manual_vanilla_trades') < Len(manual_vanilla_trades) =>
          \A j \in DOMAIN manual_vanilla_trades' :
             /\ j \in unwind_vanilla_trade' =>
                   j \in unwind_vanilla_trade
                   /\ manual_vanilla_trades'[j] = manual_vanilla_trades[j]
             /\ j \in edit_vanilla_trade' =>
                   j \in edit_vanilla_trade
                   /\ manual_vanilla_trades'[j] = manual_vanilla_trades[j]
      ]_vars

\* C29: the portfolio view lists all live trades: its rows are one row per
\* vanilla record and one per exotic record, in order, followed by the
\* TOTAL row, and "No live trades found" is shown exactly when both live
\* collections are empty.
C29_PortfolioListsAllLiveTrades ==
    LET live == manual_vanilla_trades \o manual_trades
        view == PortfolioView
    IN /\ view.no_live_trades <=> live = <<>>
       /\ live # <<>> =>
             /\ Len(view.rows) = Len(live) + 1
             /\ \A i \in DOMAIN live : view.rows[i].trade_id = live[i].trade_id
             /\ view.rows[Len(view.rows)].trade_id = StrVal("TOTAL")

\* C30: the persisted data is loaded exactly once.  The first step of a
\* session is the run that loads: it sets data_loaded and takes the
\* collections from the files (empty ones when a load fails), and until
\* then the collections are empty and untouched.  Once data_loaded is set
\* it stays set, and no run of the page changes a collection.
C30_LoadedOnceOnFirstRun ==
    [][/\ ~data_loaded =>
            /\ manual_vanilla_trades = <<>> /\ manual_trades = <<>> /\ trade_history = <<>>
            /\ data_loaded'
            /\ manual_vanilla_trades' = load_live_trades(live_file).vanilla
            /\ manual_trades' = load_live_trades(live_file).exotic
            /\ trade_history' = load_trade_history(history_file).history
            /\ UNCHANGED <<live_file, history_file>>
       /\ data_loaded =>
            /\ data_loaded'
            /\ pc' = "idle" =>
                  UNCHANGED <<manual_vanilla_trades, manual_trades, trade_history>>
      ]_vars

\* a page has been rendered with the record the first run loaded (its
\* contracts cell read back as missing) followed by one added since, which
\* is in the file too and has not been read back
C30_Witness ==
    /\ data_loaded
    /\ pc = "idle"
    /\ Len(manual_vanilla_trades) = 2
    /\ manual_vanilla_trades[1].contracts = NaN
    /\ manual_vanilla_trades[2].contracts = NoneVal
    /\ Len(live_file.rows) = 2

(***************************************************************************)
(* Claims about two concurrent sessions, checked under SpecTwo.            *)
(***************************************************************************)
\* no save is under way in either session
Quiescent == \A s \in SessionNames : sessions[s].pc = "idle"

\* the file holds what session s would write now
LiveFileOf(s) == live_file = save_live_trades(sessions[s].vanilla, sessions[s].exotic)
HistoryFileOf(s) == history_file = save_trade_history(sessions[s].history)

\* C25 (as stated): between actions, both files hold exactly the
\* collections of the session that saved last, the one whose save was the
\* last to finish.
C25_FilesAreTheLastSaversCollections ==
    (Quiescent /\ writers.history # 0) =>
       LiveFileOf(writers.history) /\ HistoryFileOf(writers.history)

\* C25 (amended): between actions, each file holds exactly what the last
\* write of that file was given: the live file the live collections of the
\* session that wrote it last, the history file the history of the session
\* that wrote it last, with nothing merged in from the other session.
C25_EachFileIsItsLastWritersCollection ==
    Quiescent =>
       /\ writers.live # 0 => LiveFileOf(writers.live)
       /\ writers.history # 0 => HistoryFileOf(writers.history)

\* the two files were last written by different sessions, whose collections
\* differ: the live file lacks the live record only the other session holds,
\* and the history file lacks the closing only the other session made
C25_Witness ==
    /\ Quiescent
    /\ writers.live = 2
    /\ writers.history = 1
    /\ sessions[1].vanilla # <<>>
    /\ sessions[2].vanilla = <<>>
    /\ sessions[2].history # <<>>
    /\ sessions[1].history = <<>>
    /\ live_file.rows = <<>>
    /\ history_file.rows = <<>>


\* the vendor library was unavailable to the call held in fetched, or raised,
\* or what it returned could not be handled
FetchFailed ==
    \/ ~fetched.available
    \/ fetched.vendor.raises
    \/ /\ fetched.fn = "get_hist_data"
       /\ ~empty(fetched.vendor.df)
       /\ reset_index_raises(fetched.vendor.df)
    \/ /\ fetched.fn = "get_current_price"
       /\ ~empty(fetched.vendor.df)
       /\ float(fetched.vendor.df.rows[1][fetched.vendor.df.order[1]]).raised

\* C26: get_hist_data and get_current_price, of either client module, never
\* raise to their caller; when the vendor API is unavailable or the fetch
\* fails, get_hist_data returns the empty table and get_current_price returns
\* None.
C26_MarketDataNeverRaises ==
    fetched.fn # "none" =>
       /\ ~fetched.result.raised
       /\ FetchFailed =>
             fetched.result.value =
                (IF fetched.fn = "get_hist_data" THEN EmptyFrame ELSE NoneVal)

\* the vendor library is installed and blp.bdp raised: get_current_price
\* returned None
C26_Witness ==
    /\ fetched.fn = "get_current_price"
    /\ fetched.client = "bloomberg_client"
    /\ fetched.available
    /\ fetched.vendor.raises
    /\ ~fetched.result.raised
    /\ fetched.result.value = NoneVal

\* C27: a history request always returns: once get_bloomberg_history waits
\* in its event loop, it eventually returns, whatever events the session
\* delivers, also when no RESPONSE event ever arrives.
C27_HistoryRequestAlwaysReturns ==
    (history_request.pc = "nextEvent") ~> (history_request.pc = "returned")

====
